---- MODULE Spec2Model ----
(***************************************************************************)
(* Torrent messaging: a publisher appends signed messages to a signed      *)
(* manifest, seeds both as torrents and announces the manifest infohash    *)
(* under its public key (signaling server, or BEP44 record store); a       *)
(* subscriber resolves the pointer by public key, loads the manifest and   *)
(* its messages, verifies them and displays the content.                   *)
(*                                                                         *)
(* The repository holds two generations of the publisher and of the        *)
(* subscriber: one that resolves through the signaling server              *)
(* (share-message.js, find-messages.js, server) and one that resolves      *)
(* through the record store (unnamed/part_001, generate-keys.js:50-380,    *)
(* lib/dht-store.js).  `variant` fixes which generation a behaviour runs.  *)
(***************************************************************************)
EXTENDS Integers, Sequences, FiniteSets, TLC

VARIABLES
    variant,          \* "server" | "dht": the generation of the programs in use
    localIndex,       \* data/local-index.json of each data directory
    files,            \* data/messages of each data directory: filename -> content
    now,              \* the last Date.now() reading taken on each machine
    seeded,           \* infohashes that were seeded successfully
    db,               \* the signaling server's Map: publicKey -> entry
    dht,              \* the record store: node -> publicKey -> item
    watching,         \* the watch process: its directory and key, or None
    lastSeq,          \* find-messages: let lastSeq
    knownInfohashes,  \* find-messages: let knownInfohashes
    pubs,             \* number of publish runs started so far
    lastPub,          \* what the last publish run did (observation only)
    cyc,              \* what the last discovery run did (observation only)
    published,        \* message list of each owner's last successful publish
    clean,            \* TRUE while the history is: one owner, one directory,
                      \* every collaborator reachable, publishes only
    loop,             \* the watch process: "off", "running", "ended" or "stalled"
    obs               \* the last request a handler answered (observation only)

vars == <<variant, localIndex, files, now, seeded, db, dht, watching,
          lastSeq, knownInfohashes, pubs, lastPub, cyc, published, clean,
          loop, obs>>

----------------------------------------------------------------------------
(* Bounds of the model *)

MaxPublishes == 2     \* publish runs in a behaviour of Spec
MaxRuns == 3          \* publish runs in a behaviour of SpecPublish
MaxOwnerRuns == 4     \* publish runs in a behaviour of SpecOwner
MaxLogRuns == 2       \* publish runs in a behaviour of SpecLog
MaxForeignRuns == 2   \* publishes in a behaviour of SpecWatch
MaxServerSeq == 2     \* highest numeric seq a client of SpecServer sends
MaxTimestamp == 2     \* highest Date.now() of a message of SpecCrypto
MaxStoreSeq == 2      \* highest seq of a put of SpecStore
MaxPairRuns == 3      \* publish runs in a behaviour of SpecPair
MaxSeconds == 19      \* seconds of a getMutable call followed in SpecGet
MaxTicks == 3         \* timer ticks and poll cycles told apart in SpecProcess

(* Two owner keys that share their first 8 hex characters. *)
Keys == {"ab01", "ab02"}
(* Two machines (data directories).  Publishers run on either, the      *)
(* subscriber on the second: it shares a directory with a publisher or    *)
(* not.                                                                    *)
Dirs == {"d1", "d2"}
SubscriberDir == "d2"
DhtNodes == {"n1", "n2"}
(* process.argv[2] of the successive publish runs *)
Contents == <<"hello", "world", "again", "more", "last">>
Variants == {"server", "dht"}

None == [none |-> TRUE]

----------------------------------------------------------------------------
(* lib/crypto-utils.js.  A signature is the pair (signing key, signed      *)
(* bytes); a keypair is named by its public key.                           *)

sign(data, privateKey) == [by |-> privateKey, over |-> data]

(* Buffer.toString('hex'): the lower-case digits of the bytes.  A hex      *)
(* string is kept as the bytes its digits spell and the form it is written *)
(* in: "lower", "upper" (same digits in upper case), "tail" (the digits    *)
(* followed by characters that are no hex digits), "short" (fewer digits), *)
(* "nonhex" (no hex digit at all).                                         *)
toHex(bytes) == [bytes |-> bytes, form |-> "lower"]

HexForms == {"lower", "upper", "tail", "short", "nonhex"}

(* The bytes of a string that spells too few of them. *)
NoBytes == [by |-> "", over |-> <<>>]

(* Buffer.from(string, 'hex'): digits of either case are read up to the   *)
(* first character that is no hex digit.                                   *)
fromHex(string) ==
    IF string.form \in {"lower", "upper", "tail"} THEN string.bytes ELSE NoBytes

(* Buffer.from(publicKey, 'hex') of the key strings of the model: the 32   *)
(* bytes of a key are named by its lower-case string, "" are bytes that    *)
(* are no 32-byte key.                                                     *)
KeyStrings == {"ab01", "ab02", "AB01", "ab01zz", "ab", "zz"}

keyFromHex(publicKey) ==
    CASE publicKey \in {"ab01", "AB01", "ab01zz"} -> "ab01"
      [] publicKey = "ab02" -> "ab02"
      [] OTHER -> ""

(* The statements of a try block end in a value or in an exception; the   *)
(* catch of verify, verifyMessage and verifyManifest returns false.        *)
caught(outcome) == [value |-> outcome = "true", threw |-> FALSE]

(* verify 54-66: createPublicKey throws on a DER that holds no 32-byte    *)
(* key, crypto.verify compares.                                            *)
verifyTry(data, signature, publicKey) ==
    IF publicKey \notin Keys THEN "throw"
    ELSE IF signature.by = publicKey /\ signature.over = data THEN "true"
    ELSE "false"

verifyResult(data, signature, publicKey) ==
    caught(verifyTry(data, signature, publicKey))

verify(data, signature, publicKey) ==
    verifyResult(data, signature, publicKey).value

(* JSON.stringify of an object literal: a property whose value is         *)
(* undefined is left out.                                                  *)
stringify(object, fields) ==
    [f \in (DOMAIN object) \cap fields |-> object[f]]

createSignedMessage(content, timestamp, publicKey, privateKey) ==
    [content   |-> content,
     timestamp |-> timestamp,
     publicKey |-> publicKey,
     signature |-> toHex(sign([content   |-> content,
                               timestamp |-> timestamp,
                               publicKey |-> publicKey], privateKey))]

(* The try block of verifyMessage and verifyManifest: destructuring null  *)
(* throws, Buffer.from(undefined, 'hex') throws.                           *)
verifySignedTry(object, fields) ==
    IF object = None THEN "throw"
    ELSE IF {"signature", "publicKey"} \subseteq DOMAIN object
         THEN IF verify(stringify(object, fields), fromHex(object.signature),
                        keyFromHex(object.publicKey))
              THEN "true" ELSE "false"
         ELSE "throw"

verifyMessageResult(message) ==
    caught(verifySignedTry(message, {"content", "timestamp", "publicKey"}))

verifyMessage(message) == verifyMessageResult(message).value

signManifest(manifest, privateKey) ==
    [publicKey |-> manifest.publicKey,
     messages  |-> manifest.messages,
     signature |-> toHex(sign([publicKey |-> manifest.publicKey,
                               messages  |-> manifest.messages], privateKey))]

verifyManifestResult(manifest) ==
    caught(verifySignedTry(manifest, {"publicKey", "messages"}))

verifyManifest(manifest) == verifyManifestResult(manifest).value

----------------------------------------------------------------------------
(* lib/torrent-utils.js (unnamed/part_000) *)

(* publicKey.slice(0, 8) *)
keyPrefix(publicKey) ==
    CASE publicKey = "ab01" -> "ab"
      [] publicKey = "ab02" -> "ab"

(* msg-<sha256(publicKey-timestamp)[0..8]>.json: one name per             *)
(* (publicKey, timestamp).                                                 *)
generateMessageFilename(publicKey, timestamp) == <<"msg", publicKey, timestamp>>

(* manifest-<keyPrefix>-<seq>.json *)
generateManifestFilename(publicKey, seq) == <<"manifest", keyPrefix(publicKey), seq>>

(* The infohash of a single-file torrent is decided by the file's name    *)
(* and bytes.                                                              *)
infoHash(filename, data) == [name |-> filename, data |-> data]

(* fs.writeFileSync(path.join(DATA_DIR, filename), content) *)
writeFile(dir, filename, data) ==
    [n \in (DOMAIN dir) \cup {filename} |->
        IF n = filename THEN data ELSE dir[n]]

(* tryLoadLocalManifest: the manifest file of the key's prefix with the   *)
(* highest seq in its name.                                                *)
manifestFiles(dir, publicKey) ==
    {n \in DOMAIN dir : n[1] = "manifest" /\ n[2] = keyPrefix(publicKey)}

tryLoadLocalManifest(dir, publicKey) ==
    LET mf == manifestFiles(dir, publicKey) IN
    IF mf = {} THEN None
    ELSE dir[CHOOSE n \in mf : \A o \in mf : o[3] <= n[3]]

(* The first msg- file whose timestamp and publicKey match.  A file name  *)
(* is decided by (publicKey, timestamp), so at most one file matches.     *)
findLocalMessage(dir, timestamp, publicKey) ==
    LET hit == {n \in DOMAIN dir : /\ n[1] = "msg"
                                   /\ dir[n].timestamp = timestamp
                                   /\ dir[n].publicKey = publicKey} IN
    IF hit = {} THEN None ELSE dir[CHOOSE n \in hit : TRUE]

----------------------------------------------------------------------------
(* The signaling server (unnamed/part_002) *)

(* A seq that is no number (the JSON string "x"): the body is parsed and  *)
(* seq is used as it comes, and a comparison of a number with such a value *)
(* is false.                                                               *)
NotANumber == -1

(* JavaScript's a >= b *)
jsGte(a, b) == IF a = NotANumber \/ b = NotANumber THEN FALSE ELSE a >= b

(* handleAnnounce 72-73: 409 when the stored seq is not lower. *)
announceConflict(publicKey, seq) ==
    IF db[publicKey] = None THEN FALSE ELSE jsGte(db[publicKey].seq, seq)

(* A string that is no 40-digit hex string, where an infohash is due. *)
BadInfohash == [name |-> <<"nothex">>, data |-> None]

(* No test of the key format *)
keyFormatAny(publicKey) == TRUE

(* /^[0-9a-fA-F]{64}$/.test(publicKey) *)
keyFormatOk(publicKey) == publicKey \in {"ab01", "ab02", "AB01"}

(* /^[0-9a-fA-F]{40}$/.test(manifestInfohash) *)
infohashFormatOk(manifestInfohash) == manifestInfohash # BadInfohash

(* verifySignature 16-34 *)
verifySignature(publicKeyHex, data, signatureHex) ==
    verify(data, fromHex(signatureHex), keyFromHex(publicKeyHex))

AnnounceFields == {"publicKey", "manifestInfohash", "seq", "signature"}

(* The status handleAnnounce answers a body with; None is a body that is  *)
(* no JSON object.                                                         *)
bodyStatus(body) ==
    IF body = None THEN 400
    ELSE IF ~(AnnounceFields \subseteq DOMAIN body) THEN 400
    ELSE IF ~keyFormatOk(body.publicKey) THEN 400
    ELSE IF ~infohashFormatOk(body.manifestInfohash) THEN 400
    ELSE IF ~verifySignature(body.publicKey,
                             stringify(body, {"publicKey", "manifestInfohash", "seq"}),
                             body.signature) THEN 403
    ELSE IF announceConflict(body.publicKey, body.seq) THEN 409
    ELSE 200

(* db.set(publicKey, {manifestInfohash, seq, updatedAt}) on 200 *)
handleAnnounceBody(body) ==
    IF bodyStatus(body) = 200
    THEN [db EXCEPT ![body.publicKey] =
              [manifestInfohash |-> body.manifestInfohash, seq |-> body.seq]]
    ELSE db

(* announceToServer (share-message.js:62-72): the payload and its         *)
(* signature.                                                              *)
announceSignature(publicKey, manifestInfohash, seq, privateKey) ==
    toHex(sign([publicKey        |-> publicKey,
                manifestInfohash |-> manifestInfohash,
                seq              |-> seq], privateKey))

announceBody(publicKey, manifestInfohash, seq, signature) ==
    [publicKey        |-> publicKey,
     manifestInfohash |-> manifestInfohash,
     seq              |-> seq,
     signature        |-> signature]

announceStatus(publicKey, manifestInfohash, seq, signature) ==
    bodyStatus(announceBody(publicKey, manifestInfohash, seq, signature))

handleAnnounce(publicKey, manifestInfohash, seq, signature) ==
    handleAnnounceBody(announceBody(publicKey, manifestInfohash, seq, signature))

(* handleLookup answers nothing for any key *)
handleLookupNone(publicKey) == None

(* handleLookup: the stored entry, or None for 404. *)
handleLookup(publicKey) == db[publicKey]

(* handleLookup 100-125: 400, 404 or 200 *)
lookupStatus(publicKey) ==
    IF ~keyFormatOk(publicKey) THEN 400
    ELSE IF handleLookup(publicKey) = None THEN 404
    ELSE 200

----------------------------------------------------------------------------
(* The record store (BEP44 items on DHT nodes), as lib/dht-store.js uses  *)
(* it.  Each node keeps the item of a key on its own and replaces it only  *)
(* by a higher seq; a query or a put reaches some of the nodes.            *)

(* dht.get through getMutable: the answers that carry a value; bestResult *)
(* is one of highest seq among them, None when no answer carries a value.  *)
getMutableResults(publicKey, answering) ==
    LET items == {dht[n][publicKey] : n \in answering} \ {None} IN
    IF items = {} THEN {None}
    ELSE {i \in items : \A o \in items : o.seq <= i.seq}

nodeAccepts(n, publicKey, seq) ==
    IF dht[n][publicKey] = None THEN TRUE ELSE dht[n][publicKey].seq < seq

(* putMutable resolves when dht.put stored the item on a node it reached. *)
putMutableOk(publicKey, seq, reached) ==
    \E n \in reached : nodeAccepts(n, publicKey, seq)

dhtPut(publicKey, value, seq, reached) ==
    [n \in DhtNodes |->
        IF n \in reached /\ nodeAccepts(n, publicKey, seq)
        THEN [dht[n] EXCEPT ![publicKey] = [seq |-> seq, value |-> value]]
        ELSE dht[n]]

(* downloadJSON resolves only for a torrent somebody seeds. *)
canDownload(infohash, transportOk) == transportOk /\ infohash \in seeded

----------------------------------------------------------------------------
(* The publisher: main() of share-message.js (server) and of              *)
(* unnamed/part_001 (record store).                                        *)

(* share-message.js:164-190: the seq of the local index entry plus 1, and *)
(* when no manifest was loaded with it, the server's seq plus 1 if the     *)
(* lookup answers with an entry.                                           *)
serverFirstManifest(d, k) ==
    IF localIndex[d][k] # None THEN tryLoadLocalManifest(files[d], k) ELSE None

serverEntryFound(d, k, lookupOk) ==
    IF serverFirstManifest(d, k) = None /\ lookupOk THEN handleLookup(k) ELSE None

serverPriorSeq(d, k, lookupOk) ==
    IF serverEntryFound(d, k, lookupOk) # None THEN serverEntryFound(d, k, lookupOk).seq
    ELSE IF localIndex[d][k] # None THEN localIndex[d][k].seq
    ELSE 0

(* share-message.js:192-201 *)
serverBaseManifest(d, k) ==
    IF tryLoadLocalManifest(files[d], k) # None
    THEN tryLoadLocalManifest(files[d], k)
    ELSE [publicKey |-> k, messages |-> <<>>]

(* The local index entry is preferred to the record found in the store *)
dhtPriorSeqCacheFirst(d, k, existing) ==
    IF localIndex[d][k] # None THEN localIndex[d][k].seq
    ELSE IF existing # None THEN existing.seq
    ELSE 0

(* part_001:94-140: the record found in the store decides the seq and the *)
(* manifest to download; without one the local index and files do.        *)
dhtPriorSeq(d, k, existing) ==
    IF existing # None THEN existing.seq
    ELSE IF localIndex[d][k] # None THEN localIndex[d][k].seq
    ELSE 0

dhtDownloaded(existing, transportOk) ==
    existing # None /\ canDownload(existing.value, transportOk)

(* A failed download starts a new message list *)
dhtBaseManifestEmpty(d, k, existing, transportOk) ==
    IF dhtDownloaded(existing, transportOk) THEN existing.value.data
    ELSE IF existing = None /\ tryLoadLocalManifest(files[d], k) # None
         THEN tryLoadLocalManifest(files[d], k)
         ELSE [publicKey |-> k, messages |-> <<>>]

(* part_001:107-139: the downloaded manifest; when the download fails or  *)
(* no record was found, the local manifest file; else an empty list.       *)
dhtBaseManifest(d, k, existing, transportOk) ==
    IF dhtDownloaded(existing, transportOk) THEN existing.value.data
    ELSE IF tryLoadLocalManifest(files[d], k) # None
         THEN tryLoadLocalManifest(files[d], k)
         ELSE [publicKey |-> k, messages |-> <<>>]

(* downloadJSON stores the torrent's file in the data directory. *)
dhtFilesAfterDownload(d, existing, transportOk) ==
    IF dhtDownloaded(existing, transportOk)
    THEN writeFile(files[d], existing.value.name, existing.value.data)
    ELSE files[d]

(* manifest.messages.unshift instead of push *)
pushMessageFront(manifest, infohash, timestamp) ==
    [publicKey |-> manifest.publicKey,
     messages  |-> <<[infohash |-> infohash, timestamp |-> timestamp]>>
                   \o manifest.messages]

(* manifest.messages.push({infohash, timestamp}) *)
pushMessage(manifest, infohash, timestamp) ==
    [publicKey |-> manifest.publicKey,
     messages  |-> Append(manifest.messages,
                          [infohash |-> infohash, timestamp |-> timestamp])]

(* The part both publishers share (share-message.js:205-228,              *)
(* part_001:144-167): sign the message, write and seed it, push its entry, *)
(* sign the manifest, write and seed it.  seedJSON writes the file before  *)
(* it seeds.                                                               *)
buildPublish(dir, k, content, timestamp, base, seq) ==
    LET message == createSignedMessage(content, timestamp, k, k)
        messageFilename == generateMessageFilename(k, timestamp)
        messageInfohash == infoHash(messageFilename, message)
        signedManifest == signManifest(pushMessage(base, messageInfohash, timestamp), k)
        manifestFilename == generateManifestFilename(k, seq)
    IN  [message          |-> message,
         messageInfohash  |-> messageInfohash,
         filesMessage     |-> writeFile(dir, messageFilename, message),
         signedManifest   |-> signedManifest,
         manifestInfohash |-> infoHash(manifestFilename, signedManifest),
         filesManifest    |-> writeFile(writeFile(dir, messageFilename, message),
                                        manifestFilename, signedManifest)]

----------------------------------------------------------------------------
(* Observation of a publish run *)

NoPub ==
    [dir |-> "", key |-> "", ok |-> FALSE, seq |-> 0, prior |-> 0,
     cacheBefore |-> 0, remoteBefore |-> 0, announce |-> 0,
     prev |-> [has |-> FALSE, messages |-> <<>>], messages |-> <<>>,
     pointer |-> None, putFailed |-> FALSE, manifestBefore |-> FALSE,
     message |-> None, steps |-> <<>>, downloaded |-> FALSE,
     localMessages |-> <<>>]

Dirty == [ok |-> FALSE, key |-> "", dir |-> "", log |-> <<>>]

seqOf(entry) == IF entry = None THEN 0 ELSE entry.seq

(* process.argv[2] of this run *)
messageContent == Contents[(pubs % Len(Contents)) + 1]

(* Date.now() in createSignedMessage: the clock of a machine advances     *)
(* between two runs on it; the clocks of two machines are not related.    *)
dateNow(d) == now[d] + 1

(* The scenario stays clean over a publish that succeeded with every      *)
(* collaborator reachable, by the same owner from the same directory.      *)
cleanAfterPublish(d, k, seq, allReachable) ==
    IF /\ clean.ok
       /\ allReachable
       /\ (clean.log = <<>> \/ (clean.key = k /\ clean.dir = d))
    THEN [ok |-> TRUE, key |-> k, dir |-> d,
          log |-> Append(clean.log, <<seq, messageContent>>)]
    ELSE Dirty

(* share-message.js:234-240 wraps the announce in a try/catch;           *)
(* part_001:173 awaits putMutable in the try of main only.                 *)
announceCaught == variant = "server"

(* Each seedJSON is wrapped in a try/catch that lets the run go on *)
seedCaughtAlways == TRUE

(* share-message.js:212, 227 and part_001:151, 166 await seedJSON in the  *)
(* try of main only: a rejection (the 30 s timer of part_000:64-69 or the  *)
(* torrent error of 83-89) ends the run in the catch of main.              *)
seedCaught == FALSE

(* The pointer is announced before the torrents are seeded *)
publishStepsAnnounceFirst(messageOk, manifestOk, announceOk) ==
    <<[op |-> "announce", ok |-> announceOk],
      [op |-> "seed message", ok |-> messageOk],
      [op |-> "seed manifest", ok |-> manifestOk],
      [op |-> "save index", ok |-> TRUE]>>

(* The awaits of a publish in the order of share-message.js:212-248 and   *)
(* part_001:151-183: seedJSON of the message, seedJSON of the manifest,    *)
(* announceToServer or putMutable, saveLocalIndex.  A rejected await ends  *)
(* the run in the catch of main, except the announce to the server.        *)
publishSteps(messageOk, manifestOk, announceOk) ==
    <<[op |-> "seed message", ok |-> messageOk]>>
    \o (IF messageOk \/ seedCaught
        THEN <<[op |-> "seed manifest", ok |-> manifestOk]>> ELSE <<>>)
    \o (IF (messageOk /\ manifestOk) \/ seedCaught
        THEN <<[op |-> "announce", ok |-> announceOk]>> ELSE <<>>)
    \o (IF /\ (messageOk /\ manifestOk) \/ seedCaught
           /\ announceOk \/ announceCaught
        THEN <<[op |-> "save index", ok |-> TRUE]>> ELSE <<>>)

(* A publish run that ends in the catch block (process.exit(1)): only the *)
(* files written so far remain.                                            *)
PublishFailed(d, k, newFiles, putFailed, steps) ==
    /\ files' = [files EXCEPT ![d] = newFiles]
    /\ now' = [now EXCEPT ![d] = dateNow(d)]
    /\ pubs' = pubs + 1
    /\ lastPub' = [NoPub EXCEPT !.dir = d, !.key = k, !.putFailed = putFailed,
                                !.steps = steps]
    /\ cyc' = None
    /\ clean' = Dirty
    /\ UNCHANGED <<variant, localIndex, seeded, db, dht, watching, lastSeq,
                   knownInfohashes, published, loop, obs>>

(* The entry is written with the seq of the run before *)
indexEntryStale(manifestInfohash, seq) ==
    [manifestInfohash |-> manifestInfohash, seq |-> seq - 1]

(* localIndex[keys.publicKey] = {manifestInfohash, seq, updatedAt}        *)
(* (share-message.js:243-247, part_001:177-181)                            *)
indexEntry(manifestInfohash, seq) ==
    [manifestInfohash |-> manifestInfohash, seq |-> seq]

(* The file is written anew with the entry of this owner alone *)
saveLocalIndexAlone(index, d, k, entry) ==
    [index EXCEPT ![d] = [o \in Keys |-> IF o = k THEN entry ELSE None]]

(* loadLocalIndex, localIndex[keys.publicKey] = ..., saveLocalIndex       *)
(* (share-message.js:25-35, 168, 243-248; part_001:176-182): the object    *)
(* read from local-index.json is written back with one property set.       *)
saveLocalIndex(index, d, k, entry) == [index EXCEPT ![d][k] = entry]

(* A publish run that reached "Message shared successfully!". *)
PublishDone(d, k, b, seq, prior, remote, status, allReachable, steps, downloaded) ==
    /\ files' = [files EXCEPT ![d] = b.filesManifest]
    /\ now' = [now EXCEPT ![d] = dateNow(d)]
    /\ seeded' = seeded \cup {b.messageInfohash, b.manifestInfohash}
    /\ localIndex' = saveLocalIndex(localIndex, d, k,
                                    indexEntry(b.manifestInfohash, seq))
    /\ pubs' = pubs + 1
    /\ published' = [published EXCEPT ![k] =
                        [has |-> TRUE, messages |-> b.signedManifest.messages]]
    /\ lastPub' = [dir |-> d, key |-> k, ok |-> TRUE, seq |-> seq,
                   prior |-> prior,
                   cacheBefore |-> seqOf(localIndex[d][k]),
                   remoteBefore |-> remote,
                   announce |-> status,
                   prev |-> published[k],
                   messages |-> b.signedManifest.messages,
                   pointer |-> b.manifestInfohash,
                   putFailed |-> FALSE,
                   manifestBefore |-> tryLoadLocalManifest(files[d], k) # None,
                   message |-> b.messageInfohash,
                   steps |-> steps,
                   downloaded |-> downloaded,
                   localMessages |->
                      IF tryLoadLocalManifest(files[d], k) = None THEN <<>>
                      ELSE tryLoadLocalManifest(files[d], k).messages]
    /\ cyc' = None
    /\ clean' = cleanAfterPublish(d, k, seq, allReachable)
    /\ UNCHANGED <<variant, watching, lastSeq, knownInfohashes, loop, obs>>

(* share-message.js main(): one run of the server publisher in directory  *)
(* d with keys.json holding k.  lookupOk: the server answers the lookup;   *)
(* announceOk: it answers the announce.                                    *)
serverBuild(d, k, lookupOk) ==
    buildPublish(files[d], k, messageContent, dateNow(d), serverBaseManifest(d, k),
                 serverPriorSeq(d, k, lookupOk) + 1)

PublishServer(d, k, lookupOk, announceOk) ==
    LET prior == serverPriorSeq(d, k, lookupOk)
        seq == prior + 1
        b == serverBuild(d, k, lookupOk)
        signature == announceSignature(k, b.manifestInfohash, seq, k)
        status == IF announceOk
                  THEN announceStatus(k, b.manifestInfohash, seq, signature)
                  ELSE 0
    IN
    /\ variant = "server"
    /\ db' = IF announceOk
             THEN handleAnnounce(k, b.manifestInfohash, seq, signature)
             ELSE db
    /\ PublishDone(d, k, b, seq, prior, IF lookupOk THEN seqOf(handleLookup(k)) ELSE 0,
                   status, lookupOk /\ announceOk,
                   publishSteps(TRUE, TRUE, status = 200), FALSE)
    /\ UNCHANGED dht

(* seedJSON rejects (timeout or torrent error) for the message or for the *)
(* manifest: share-message.js:276-280.                                     *)
PublishServerSeedFails(d, k, lookupOk, manifestWritten) ==
    LET prior == serverPriorSeq(d, k, lookupOk)
        b == serverBuild(d, k, lookupOk)
        signature == announceSignature(k, b.manifestInfohash, prior + 1, k)
        status == announceStatus(k, b.manifestInfohash, prior + 1, signature)
    IN
    /\ variant = "server"
    /\ IF seedCaught
       THEN /\ db' = handleAnnounce(k, b.manifestInfohash, prior + 1, signature)
            /\ PublishDone(d, k, b, prior + 1, prior, 0, status, FALSE,
                           publishSteps(manifestWritten, FALSE, status = 200), FALSE)
            /\ UNCHANGED dht
       ELSE PublishFailed(d, k,
                          IF manifestWritten THEN b.filesManifest ELSE b.filesMessage,
                          FALSE, publishSteps(manifestWritten, FALSE, FALSE))

(* unnamed/part_001 main(): one run of the record-store publisher.        *)
(* `existing` is what getMutable returned, `reached` the nodes the put     *)
(* reached.                                                                *)
dhtBuild(d, k, existing, transportOk) ==
    buildPublish(dhtFilesAfterDownload(d, existing, transportOk), k, messageContent,
                 dateNow(d), dhtBaseManifest(d, k, existing, transportOk),
                 dhtPriorSeq(d, k, existing) + 1)

PublishDht(d, k, answering, existing, transportOk, reached) ==
    LET prior == dhtPriorSeq(d, k, existing)
        seq == prior + 1
        b == dhtBuild(d, k, existing, transportOk)
    IN
    /\ variant = "dht"
    /\ putMutableOk(k, seq, reached)
    /\ dht' = dhtPut(k, b.manifestInfohash, seq, reached)
    /\ PublishDone(d, k, b, seq, prior, seqOf(existing), 0,
                   /\ answering = DhtNodes
                   /\ reached = DhtNodes
                   /\ (existing # None => transportOk),
                   publishSteps(TRUE, TRUE, TRUE),
                   dhtDownloaded(existing, transportOk))
    /\ UNCHANGED db

(* seedJSON rejects for the message or for the manifest: part_001:224-229. *)
PublishDhtFails(d, k, existing, transportOk, manifestWritten) ==
    LET prior == dhtPriorSeq(d, k, existing)
        b == dhtBuild(d, k, existing, transportOk)
    IN
    /\ variant = "dht"
    /\ IF seedCaught
       THEN /\ dht' = dhtPut(k, b.manifestInfohash, prior + 1, DhtNodes)
            /\ PublishDone(d, k, b, prior + 1, prior, seqOf(existing), 0, FALSE,
                           publishSteps(manifestWritten, FALSE, TRUE),
                           dhtDownloaded(existing, transportOk))
            /\ UNCHANGED db
       ELSE PublishFailed(d, k,
                          IF manifestWritten THEN b.filesManifest ELSE b.filesMessage,
                          FALSE, publishSteps(manifestWritten, FALSE, FALSE))

----------------------------------------------------------------------------
(* The subscriber: fetchAndDisplayMessages() of find-messages.js (server) *)
(* and of generate-keys.js:183-312 (record store).                         *)

(* console.log of the content without the isValid test *)
surfacedAlways(message) == <<message.content>>

(* find-messages.js:207-217, generate-keys.js:291-301: the content is     *)
(* printed only when verifyMessage holds.                                  *)
surfaced(message) ==
    IF verifyMessage(message) THEN <<message.content>> ELSE <<>>

(* No entry is skipped *)
alreadyDeliveredNever(watchMode, infohash, known) == FALSE

(* find-messages.js:170-172, generate-keys.js:256-258: in watch mode an   *)
(* entry whose infohash is in knownInfohashes is skipped.                  *)
alreadyDelivered(watchMode, infohash, known) == watchMode /\ infohash \in known

(* The loop over manifest.messages (find-messages.js:166-225,             *)
(* generate-keys.js:252-309) from entry i on.  `avail` are the torrents    *)
(* whose download succeeds in this run.  acc carries the directory, the    *)
(* known infohashes, what was displayed and which downloads failed.        *)
RECURSIVE displayMessages(_, _, _, _, _)
displayMessages(manifest, i, watchMode, avail, acc) ==
    IF i > Len(manifest.messages) THEN acc
    ELSE
      LET msgInfo == manifest.messages[i]
          local == findLocalMessage(acc.dir, msgInfo.timestamp, manifest.publicKey)
          downloaded == local = None /\ msgInfo.infohash \in avail
          message == IF local # None THEN local
                     ELSE IF downloaded THEN msgInfo.infohash.data
                     ELSE None
      IN
      IF alreadyDelivered(watchMode, msgInfo.infohash, acc.known)
      THEN displayMessages(manifest, i + 1, watchMode, avail, acc)
      ELSE IF message = None
      THEN displayMessages(manifest, i + 1, watchMode, avail,
                           [acc EXCEPT !.failed = @ \cup {msgInfo.infohash}])
      ELSE displayMessages(manifest, i + 1, watchMode, avail,
             [dir    |-> IF downloaded
                         THEN writeFile(acc.dir, msgInfo.infohash.name, message)
                         ELSE acc.dir,
              known  |-> acc.known \cup {msgInfo.infohash},
              shown  |-> Append(acc.shown,
                                [infohash |-> msgInfo.infohash,
                                 message  |-> message,
                                 local    |-> local # None,
                                 valid    |-> verifyMessage(message),
                                 content  |-> surfaced(message)]),
              failed |-> acc.failed])

(* currentSeq < lastSeq instead of === *)
noNewDataLower(watchMode, currentSeq, last) == watchMode /\ currentSeq < last

(* find-messages.js:123-126, generate-keys.js:213-216 *)
noNewData(watchMode, currentSeq, last) == watchMode /\ currentSeq = last

(* A parsed manifest file that has a messages array. *)
hasMessages(manifest) == "messages" \in DOMAIN manifest

(* find-messages.js:143-144 (localManifest && localManifest.messages),    *)
(* generate-keys.js:226-227 (localManifest).                               *)
localUsable(dir, k) ==
    IF tryLoadLocalManifest(dir, k) = None THEN FALSE
    ELSE variant = "dht" \/ hasMessages(tryLoadLocalManifest(dir, k))

(* find-messages.js:131-152, generate-keys.js:221-238: the manifest to    *)
(* process: the local manifest file if there is one, else the download of  *)
(* the resolved infohash; None when that download fails.                   *)
loadManifest(dir, k, manifestInfohash, avail) ==
    IF localUsable(dir, k) THEN tryLoadLocalManifest(dir, k)
    ELSE IF manifestInfohash \in avail THEN manifestInfohash.data
    ELSE None

manifestDownloaded(dir, k, manifestInfohash, avail) ==
    ~localUsable(dir, k) /\ manifestInfohash \in avail

(* A manifest whose signature fails is not processed *)
unverifiedStops(manifest) == ~verifyManifest(manifest)

(* find-messages.js:154-159, generate-keys.js:240-245: the branch of a    *)
(* failed verifyManifest only prints a warning; nothing returns.           *)
manifestStops(manifest) == FALSE

(* What one call does with the entry it resolved (None: no entry).        *)
fetchAndDisplayMessages(dir, k, watchMode, last, known, entry, avail) ==
    LET idle == [ret |-> FALSE, noop |-> FALSE, lastSeq |-> last, dir |-> dir,
                 known |-> known, processed |-> None, shown |-> <<>>,
                 failed |-> {}, threw |-> FALSE, warned |-> FALSE,
                 loaded |-> None] IN
    IF entry = None THEN idle
    ELSE IF noNewData(watchMode, entry.seq, last) THEN [idle EXCEPT !.noop = TRUE]
    ELSE
      LET manifest == loadManifest(dir, k, entry.manifestInfohash, avail)
          dir1 == IF manifestDownloaded(dir, k, entry.manifestInfohash, avail)
                  THEN writeFile(dir, entry.manifestInfohash.name, manifest)
                  ELSE dir
      IN
      IF manifest = None
      THEN [idle EXCEPT !.lastSeq = entry.seq, !.failed = {entry.manifestInfohash}]
      ELSE IF manifestStops(manifest)
      THEN [idle EXCEPT !.lastSeq = entry.seq, !.dir = dir1, !.warned = TRUE,
                        !.loaded = manifest]
      ELSE IF ~hasMessages(manifest)
      THEN \* manifest.messages.length throws a TypeError
           [idle EXCEPT !.lastSeq = entry.seq, !.dir = dir1, !.threw = TRUE,
                        !.warned = ~verifyManifest(manifest),
                        !.loaded = manifest]
      ELSE
        LET r == displayMessages(manifest, 1, watchMode, avail,
                    [dir |-> dir1, known |-> known, shown |-> <<>>, failed |-> {}])
        IN [ret |-> TRUE, noop |-> FALSE, lastSeq |-> entry.seq, dir |-> r.dir,
            known |-> r.known, processed |-> manifest, shown |-> r.shown,
            failed |-> r.failed, threw |-> FALSE,
            warned |-> ~verifyManifest(manifest), loaded |-> manifest]

(* find-messages.js:100-121: the entry the server lookup yields. *)
serverResolve(k, lookupOk) == IF lookupOk THEN handleLookup(k) ELSE None

(* generate-keys.js:188-211: the entry getMutable yields. *)
dhtResolve(result) ==
    IF result = None THEN None
    ELSE [manifestInfohash |-> result.value, seq |-> result.seq]

(* Observation of a discovery run *)
observe(d, k, watchMode, last, entry, r, allReachable) ==
    [dir |-> d, key |-> k, watch |-> watchMode, prevLastSeq |-> last,
     resolved |-> seqOf(entry),
     pointer |-> IF entry = None THEN None ELSE entry.manifestInfohash,
     cacheSeq |-> seqOf(localIndex[d][k]),
     cachedManifest |-> tryLoadLocalManifest(files[d], k),
     ret |-> r.ret, noop |-> r.noop, processed |-> r.processed,
     shown |-> r.shown, failed |-> r.failed, threw |-> r.threw,
     warned |-> r.warned, loaded |-> r.loaded,
     knownBefore |-> IF watchMode THEN knownInfohashes ELSE {},
     reachable |-> allReachable,
     afterFailure |-> IF watchMode /\ cyc # None
                      THEN cyc.watch /\ cyc.failed # {} ELSE FALSE,
     scenario |-> IF clean.ok /\ allReachable /\ clean.log # <<>> /\ clean.key = k
                  THEN clean.log ELSE <<>>]

(* The torrents a run may have to download: the resolved manifest when  *)
(* no local manifest file exists, and the entries of the manifest it      *)
(* loads that are neither known nor found in the directory.               *)
wanted(dir, k, watchMode, last, known, entry) ==
    IF entry = None THEN {}
    ELSE IF noNewData(watchMode, entry.seq, last) THEN {}
    ELSE
      LET m == loadManifest(dir, k, entry.manifestInfohash, {entry.manifestInfohash})
          n == IF hasMessages(m) THEN Len(m.messages) ELSE 0
          ask == {i \in 1..n :
                    /\ ~alreadyDelivered(watchMode, m.messages[i].infohash, known)
                    /\ findLocalMessage(dir, m.messages[i].timestamp, m.publicKey) = None}
      IN ((IF localUsable(dir, k) THEN {} ELSE {entry.manifestInfohash})
          \cup {m.messages[i].infohash : i \in ask}) \cap seeded

(* The run caches the pointer it resolved *)
indexAfterRunCached(index, d, k, entry) ==
    IF entry = None THEN index
    ELSE [index EXCEPT ![d][k] = indexEntry(entry.manifestInfohash, entry.seq)]

(* data/local-index.json after a discovery run: find-messages.js has no   *)
(* code that touches the file, generate-keys.js:63-69 only reads it, and   *)
(* downloads are written under data/messages (part_000:9, 127).            *)
indexAfterRun(index, d, k, entry) == index

(* A single run (no --watch): main() of find-messages.js:262-272. *)
Discover(d, k, entry, avail, resolveReached) ==
    LET r == fetchAndDisplayMessages(files[d], k, FALSE, -1, {}, entry, avail) IN
    /\ files' = [files EXCEPT ![d] = r.dir]
    /\ cyc' = observe(d, k, FALSE, -1, entry, r,
                      resolveReached /\ avail = wanted(files[d], k, FALSE, -1, {}, entry))
    /\ localIndex' = indexAfterRun(localIndex, d, k, entry)
    /\ lastPub' = NoPub
    /\ clean' = Dirty
    /\ UNCHANGED <<variant, now, seeded, db, dht, watching, lastSeq,
                   knownInfohashes, pubs, published, loop, obs>>

(* node find-messages.js <key> --watch: the process starts. *)
WatchStart(d, k) ==
    /\ watching = None
    /\ watching' = [dir |-> d, key |-> k]
    /\ lastSeq' = -1
    /\ knownInfohashes' = {}
    /\ loop' = "running"
    /\ UNCHANGED <<variant, localIndex, files, now, seeded, db, dht, pubs, lastPub,
                   cyc, published, clean, obs>>

(* An error thrown by the poll ends the loop (no try/catch). *)
afterPollUncaught(threw) == IF threw THEN "ended" ELSE "running"

(* find-messages.js:237-246, generate-keys.js:321-330: the try/catch      *)
(* around the poll, then the sleep: the loop goes on either way.           *)
afterPoll(threw) == "running"

(* One cycle of watchLoop (find-messages.js:236-247,                      *)
(* generate-keys.js:320-331).                                              *)
WatchCycle(entry, avail, resolveReached) ==
    /\ watching # None
    /\ loop = "running"
    /\ LET d == watching.dir
           k == watching.key
           r == fetchAndDisplayMessages(files[d], k, TRUE, lastSeq, knownInfohashes,
                                        entry, avail)
       IN /\ files' = [files EXCEPT ![d] = r.dir]
          /\ lastSeq' = r.lastSeq
          /\ knownInfohashes' = r.known
          /\ loop' = afterPoll(r.threw)
          /\ cyc' = observe(d, k, TRUE, lastSeq, entry, r,
                            resolveReached /\
                            avail = wanted(files[d], k, TRUE, lastSeq,
                                           knownInfohashes, entry))
          /\ localIndex' = indexAfterRun(localIndex, d, k, entry)
    /\ lastPub' = NoPub
    /\ clean' = Dirty
    /\ UNCHANGED <<variant, now, seeded, db, dht, watching, pubs,
                   published, obs>>

(* SIGINT (find-messages.js:282-287, generate-keys.js:371-377): the       *)
(* process destroys its clients and exits.                                 *)
WatchCancel ==
    /\ loop = "running"
    /\ loop' = "cancelled"
    /\ cyc' = None
    /\ UNCHANGED <<variant, localIndex, files, now, seeded, db, dht, watching,
                   lastSeq, knownInfohashes, pubs, lastPub, published, clean, obs>>

(* What a request does when the collaborator never answers it.            *)
(* lookupFromServer (find-messages.js:17-44, share-message.js:105-132) and *)
(* announceToServer (share-message.js:62-102) are an http.request with     *)
(* only 'error' and 'end' handlers; getMutable (dht-store.js:126-137),     *)
(* seedJSON (part_000:64-69) and downloadJSON (part_000:106-111) carry a   *)
(* timer that settles the promise.                                         *)
settles(call, outcome) ==
    IF outcome # "silent" THEN TRUE
    ELSE call \in {"getMutable", "seedJSON", "downloadJSON"}

(* A poll of the server subscriber whose lookup is never answered: the    *)
(* await of find-messages.js:105 never returns.                            *)
WatchLookupSilent ==
    /\ loop = "running"
    /\ variant = "server"
    /\ ~settles("lookupFromServer", "silent")
    /\ loop' = "stalled"
    /\ cyc' = None
    /\ UNCHANGED <<variant, localIndex, files, now, seeded, db, dht, watching,
                   lastSeq, knownInfohashes, pubs, lastPub, published, clean, obs>>

----------------------------------------------------------------------------
(* A publisher of key k that is not one of the programs above: it seeds   *)
(* torrents of its own making and announces a pointer it signed.  What a   *)
(* subscriber resolves and downloads is whatever such a publisher made.    *)

ForeignKinds == {"signed", "forged", "malformed", "unverified"}

(* The seq the store or the server will accept next for k. *)
foreignSeq(k) ==
    IF variant = "server" THEN seqOf(db[k]) + 1
    ELSE IF seqOf(dht["n1"][k]) >= seqOf(dht["n2"][k])
         THEN seqOf(dht["n1"][k]) + 1
         ELSE seqOf(dht["n2"][k]) + 1

(* A message whose content was changed after it was signed. *)
foreignMessage(k, timestamp, kind) ==
    IF kind = "forged"
    THEN [createSignedMessage("hello", timestamp, k, k) EXCEPT !.content = "evil"]
    ELSE createSignedMessage("hello", timestamp, k, k)

(* A manifest of one entry, or a JSON object without a messages array;   *)
(* the "unverified" one carries a signature made with another key.         *)
foreignManifest(k, timestamp, kind) ==
    IF kind = "malformed" THEN [publicKey |-> k]
    ELSE signManifest(
           pushMessage([publicKey |-> k, messages |-> <<>>],
                       infoHash(generateMessageFilename(k, timestamp),
                                foreignMessage(k, timestamp, kind)),
                       timestamp),
           IF kind = "unverified" THEN "ab02" ELSE k)

PublishForeign(k, kind, reached) ==
    LET seq == foreignSeq(k)
        message == foreignMessage(k, seq, kind)
        messageInfohash == infoHash(generateMessageFilename(k, seq), message)
        manifest == foreignManifest(k, seq, kind)
        manifestInfohash == infoHash(generateManifestFilename(k, seq), manifest)
    IN
    /\ seeded' = seeded \cup {messageInfohash, manifestInfohash}
    /\ IF variant = "server"
       THEN /\ db' = handleAnnounce(k, manifestInfohash, seq,
                                    announceSignature(k, manifestInfohash, seq, k))
            /\ UNCHANGED dht
       ELSE /\ putMutableOk(k, seq, reached)
            /\ dht' = dhtPut(k, manifestInfohash, seq, reached)
            /\ UNCHANGED db
    /\ pubs' = pubs + 1
    /\ lastPub' = NoPub
    /\ cyc' = None
    /\ clean' = Dirty
    /\ UNCHANGED <<variant, localIndex, files, now, watching, lastSeq,
                   knownInfohashes, published, loop, obs>>

----------------------------------------------------------------------------
(* Requests to the signaling server (unnamed/part_002:130-170): any       *)
(* client can POST any body to /announce and GET /lookup/<key>.            *)

ServerSeqs == (1..MaxServerSeq) \cup {NotANumber}
serverPointer(seq) == infoHash(generateManifestFilename("ab01", seq), None)
ServerPointers == {serverPointer(1), serverPointer(2), BadInfohash}
ServerKeyStrings == {"ab01", "ab02", "zz"}
SignatureKinds == {"good", "otherKey", "otherSeq", "tail"}

otherKey(k) == IF k = "ab01" THEN "ab02" ELSE "ab01"

(* The signature field a client sends with (publicKey, pointer, seq). *)
clientSignature(publicKey, manifestInfohash, seq, kind) ==
    LET owner == IF keyFromHex(publicKey) \in Keys THEN keyFromHex(publicKey)
                 ELSE "ab01"
        good == announceSignature(publicKey, manifestInfohash, seq, owner)
    IN CASE kind = "good"     -> good
         [] kind = "otherKey" ->
              announceSignature(publicKey, manifestInfohash, seq, otherKey(owner))
         [] kind = "otherSeq" ->
              announceSignature(publicKey, manifestInfohash,
                                IF seq = 1 THEN 2 ELSE 1, owner)
         [] kind = "tail"     -> [good EXCEPT !.form = "tail"]

(* A JSON object with the four fields, or with one of them left out. *)
clientBody(publicKey, manifestInfohash, seq, kind, drop) ==
    LET full == announceBody(publicKey, manifestInfohash, seq,
                             clientSignature(publicKey, manifestInfohash, seq, kind))
    IN [f \in AnnounceFields \ {drop} |-> full[f]]

ClientBodies ==
    {None}
    \cup {clientBody(publicKey, manifestInfohash, seq, kind, "none") :
            publicKey \in ServerKeyStrings, manifestInfohash \in ServerPointers,
            seq \in ServerSeqs, kind \in SignatureKinds}
    \cup {clientBody(publicKey, serverPointer(1), seq, "good", drop) :
            publicKey \in ServerKeyStrings, seq \in ServerSeqs,
            drop \in AnnounceFields}

(* The last accepted announce of each key so far (observation only). *)
acceptedSoFar == IF obs = None THEN [k \in Keys |-> None] ELSE obs.accepted

(* POST /announce *)
ServerAnnounce(body) ==
    /\ variant = "server"
    /\ db' = handleAnnounceBody(body)
    /\ obs' = [call     |-> "announce",
               body     |-> body,
               status   |-> bodyStatus(body),
               key      |-> "",
               entry    |-> None,
               accepted |-> IF bodyStatus(body) = 200
                            THEN [acceptedSoFar EXCEPT ![body.publicKey] =
                                     [manifestInfohash |-> body.manifestInfohash,
                                      seq |-> body.seq]]
                            ELSE acceptedSoFar]
    /\ UNCHANGED <<variant, localIndex, files, now, seeded, dht, watching,
                   lastSeq, knownInfohashes, pubs, lastPub, cyc, published,
                   clean, loop>>

(* GET /lookup/<publicKey>: the handler reads the Map and writes nothing. *)
ServerLookup(publicKey) ==
    /\ variant = "server"
    /\ obs' = [call     |-> "lookup",
               body     |-> None,
               status   |-> lookupStatus(publicKey),
               key      |-> publicKey,
               entry    |-> IF lookupStatus(publicKey) = 200
                            THEN handleLookup(publicKey) ELSE None,
               accepted |-> acceptedSoFar]
    /\ UNCHANGED <<variant, localIndex, files, now, seeded, db, dht, watching,
                   lastSeq, knownInfohashes, pubs, lastPub, cyc, published,
                   clean, loop>>

----------------------------------------------------------------------------
(* Calls of lib/crypto-utils.js on what a caller can hand to it: a signed *)
(* object as made by createSignedMessage or signManifest, with one thing   *)
(* about it changed.                                                       *)

MessageKinds ==
    {"none", "content", "timestamp", "publicKey", "publicKeyUpper",
     "publicKeyTail", "publicKeyTailSigned", "publicKeyShort", "publicKeyNonHex",
     "signatureOther", "signatureKey", "signatureUpper", "signatureTail",
     "signatureShort", "signatureNonHex",
     "noSignature", "noPublicKey", "noContent", "noTimestamp", "null"}

ManifestKinds ==
    {"none", "messages", "publicKey", "publicKeyUpper",
     "publicKeyTail", "publicKeyShort", "publicKeyNonHex",
     "signatureOther", "signatureKey", "signatureUpper", "signatureTail",
     "signatureShort", "signatureNonHex",
     "noSignature", "noPublicKey", "noMessages", "null"}

(* The inputs of the calls *)
CallContents == {"hello", "world"}
CallManifestLists == {<<>>, <<[infohash |-> BadInfohash, timestamp |-> 1]>>}
KeyBytes == {"ab01", "ab02", ""}

without(object, field) == [f \in (DOMAIN object) \ {field} |-> object[f]]

(* The object with the change of that kind.  `resigned` is the signature  *)
(* the owner makes over the object with its publicKey field replaced.      *)
changed(object, kind, k) ==
    CASE kind = "none"            -> object
      [] kind = "content"         -> [object EXCEPT !.content = "evil"]
      [] kind = "timestamp"       -> [object EXCEPT !.timestamp = @ + 1]
      [] kind = "messages"        ->
           [object EXCEPT !.messages =
               Append(@, [infohash |-> BadInfohash, timestamp |-> 2])]
      [] kind = "publicKey"       -> [object EXCEPT !.publicKey = otherKey(k)]
      [] kind = "publicKeyUpper"  -> [object EXCEPT !.publicKey = "AB01"]
      [] kind = "publicKeyTail"   -> [object EXCEPT !.publicKey = "ab01zz"]
      [] kind = "publicKeyTailSigned" ->
           [object EXCEPT !.publicKey = "ab01zz",
                          !.signature = toHex(sign([content   |-> object.content,
                                                    timestamp |-> object.timestamp,
                                                    publicKey |-> "ab01zz"], "ab01"))]
      [] kind = "publicKeyShort"  -> [object EXCEPT !.publicKey = "ab"]
      [] kind = "publicKeyNonHex" -> [object EXCEPT !.publicKey = "zz"]
      [] kind = "signatureOther"  ->
           [object EXCEPT !.signature = toHex(sign([publicKey |-> k], k))]
      [] kind = "signatureKey"    ->
           [object EXCEPT !.signature = toHex(sign(@.bytes.over, otherKey(k)))]
      [] kind = "signatureUpper"  -> [object EXCEPT !.signature.form = "upper"]
      [] kind = "signatureTail"   -> [object EXCEPT !.signature.form = "tail"]
      [] kind = "signatureShort"  -> [object EXCEPT !.signature.form = "short"]
      [] kind = "signatureNonHex" -> [object EXCEPT !.signature.form = "nonhex"]
      [] kind = "noSignature"     -> without(object, "signature")
      [] kind = "noPublicKey"     -> without(object, "publicKey")
      [] kind = "noContent"       -> without(object, "content")
      [] kind = "noTimestamp"     -> without(object, "timestamp")
      [] kind = "noMessages"      -> without(object, "messages")
      [] kind = "null"            -> None

(* verifyMessage(message) *)
CallVerifyMessage(content, timestamp, k, kind) ==
    LET message == changed(createSignedMessage(content, timestamp, k, k), kind, k) IN
    /\ obs' = [call   |-> "verifyMessage",
               kind   |-> kind,
               arg    |-> message,
               result |-> verifyMessageResult(message)]
    /\ UNCHANGED <<variant, localIndex, files, now, seeded, db, dht, watching,
                   lastSeq, knownInfohashes, pubs, lastPub, cyc, published,
                   clean, loop>>

(* verifyManifest(manifest) *)
CallVerifyManifest(messages, k, kind) ==
    LET manifest == changed(signManifest([publicKey |-> k, messages |-> messages], k),
                            kind, k) IN
    /\ obs' = [call   |-> "verifyManifest",
               kind   |-> kind,
               arg    |-> manifest,
               result |-> verifyManifestResult(manifest)]
    /\ UNCHANGED <<variant, localIndex, files, now, seeded, db, dht, watching,
                   lastSeq, knownInfohashes, pubs, lastPub, cyc, published,
                   clean, loop>>

(* verify(data, signature, publicKey) on buffers: the signature of signer *)
(* over the data or too few bytes, the key bytes of a key or too few.      *)
CallVerify(content, signer, short, publicKey) ==
    LET data == [content |-> content]
        signature == IF short THEN NoBytes ELSE sign(data, signer) IN
    /\ obs' = [call   |-> "verify",
               kind   |-> IF publicKey \notin Keys THEN "publicKeyShort"
                          ELSE IF short THEN "signatureShort"
                          ELSE IF signer # publicKey THEN "signatureKey"
                          ELSE "none",
               arg    |-> [data |-> data, signature |-> signature,
                           publicKey |-> publicKey],
               result |-> verifyResult(data, signature, publicKey)]
    /\ UNCHANGED <<variant, localIndex, files, now, seeded, db, dht, watching,
                   lastSeq, knownInfohashes, pubs, lastPub, cyc, published,
                   clean, loop>>

----------------------------------------------------------------------------
(* putMutable (lib/dht-store.js:166-220) called with a value of any size. *)

(* The BEP44 limit of dht-store.js:170 *)
ValueLimit == 1000

(* valueBuffer.length >= 1000 *)
valueTooLongInclusive(length) == length >= ValueLimit

(* dht-store.js:170: valueBuffer.length > 1000 *)
valueTooLong(length) == length > ValueLimit

(* Byte lengths of the values of the calls *)
ValueLengths == {40, 999, 1000, 1001}

(* A value of that many bytes *)
valueOf(length) == infoHash(<<"value", length>>, None)

(* One call: the size test rejects before attemptPut runs; otherwise the  *)
(* put is issued to the nodes reached and its callback settles the call.   *)
CallPutMutable(k, length, seq, reached) ==
    /\ variant = "dht"
    /\ dht' = IF valueTooLong(length) THEN dht
              ELSE dhtPut(k, valueOf(length), seq, reached)
    /\ obs' = [call    |-> "putMutable",
               key     |-> k,
               length  |-> length,
               seq     |-> seq,
               reached |-> reached,
               outcome |-> IF valueTooLong(length) THEN "rejected for size"
                           ELSE IF putMutableOk(k, seq, reached) THEN "resolved"
                           ELSE "rejected by put"]
    /\ UNCHANGED <<variant, localIndex, files, now, seeded, db, watching,
                   lastSeq, knownInfohashes, pubs, lastPub, cyc, published,
                   clean, loop>>

----------------------------------------------------------------------------
(* getMutable (lib/dht-store.js:84-154) as the timers it sets and the     *)
(* dht.get callbacks it receives.  Time is in seconds; obs is the call.    *)
(* Timers due at the same second fire in any order.                        *)

RetrySeconds == 5      \* i * 5000 ms
PollSeconds == 1       \* setInterval(..., 1000)
SettleSeconds == 3     \* setTimeout(..., 3000)
DefaultRetries == 3    \* retries = 3

(* getMutable(dht, publicKey, 15000) of part_001:94 and a call of 8 s     *)
(* with one retry.                                                         *)
GetCalls == {[timeout |-> 15, retries |-> DefaultRetries],
             [timeout |-> 8, retries |-> 1]}

(* What a dht.get callback carries: an error, no result, or an item. *)
GetAnswers == {[err |-> TRUE, seq |-> 0], [err |-> FALSE, seq |-> 0]}
              \cup {[err |-> FALSE, seq |-> q] : q \in 1..MaxStoreSeq}

(* The last response replaces the best result *)
betterAlways(seq, best) == TRUE

(* dht-store.js:103: !bestResult || result.seq > bestResult.seq           *)
(* (best = 0 stands for null).                                             *)
better(seq, best) == best = 0 \/ seq > best

(* The retry is issued whatever was found *)
retryWantedAlways(resolved, best) == TRUE

(* dht-store.js:120: !resolved && !bestResult *)
retryWanted(resolved, best) == ~resolved /\ best = 0

(* The settle timer resolves without looking at `resolved` *)
settleWantedAlways(resolved) == TRUE

(* dht-store.js:144: !resolved *)
settleWanted(resolved) == ~resolved

(* attemptGet(): dht-store.js:90-112 up to the callback. *)
attemptGet(c) ==
    [c EXCEPT !.attemptCount = @ + 1, !.inflight = @ + 1,
              !.queryAt = Append(@, c.clock)]

timer(kind, at) == [kind |-> kind, at |-> at]

(* resolve(bestResult) *)
resolveCall(c) ==
    [c EXCEPT !.resolved = TRUE, !.returns = @ + 1,
              !.value = IF c.returns = 0 THEN c.best ELSE @,
              !.returnedAt = IF c.returns = 0 THEN c.clock ELSE @]

(* The call starts: first attempt, retry timers, timeout, poll interval. *)
GetStart(call) ==
    /\ obs = None
    /\ obs' = attemptGet(
                [call |-> "getMutable", timeout |-> call.timeout,
                 retries |-> call.retries, clock |-> 0, resolved |-> FALSE,
                 best |-> 0, attemptCount |-> 0, inflight |-> 0,
                 timers |-> {timer("retry", i * RetrySeconds) : i \in 1..call.retries}
                            \cup {timer("timeout", call.timeout),
                                  timer("poll", PollSeconds)},
                 returns |-> 0, value |-> 0, returnedAt |-> 0,
                 arrived |-> 0, sawLower |-> FALSE, sawError |-> FALSE,
                 settleFor |-> 0, late |-> 0, path |-> "",
                 queryAt |-> <<>>])
    /\ UNCHANGED <<variant, localIndex, files, now, seeded, db, dht, watching,
                   lastSeq, knownInfohashes, pubs, lastPub, cyc, published,
                   clean, loop>>

(* The callback of a dht.get (dht-store.js:94-111). *)
GetResponse(answer) ==
    /\ obs # None
    /\ obs.inflight > 0
    /\ obs' = IF obs.resolved
              THEN [obs EXCEPT !.inflight = @ - 1,
                               !.late = IF answer.seq > @ THEN answer.seq ELSE @]
              ELSE [obs EXCEPT !.inflight = @ - 1,
                               !.sawError = @ \/ answer.err,
                               !.best = IF answer.seq > 0 /\ better(answer.seq, @)
                                        THEN answer.seq ELSE @,
                               !.arrived = IF answer.seq > @ THEN answer.seq ELSE @,
                               !.sawLower = @ \/ (0 < answer.seq /\ answer.seq < obs.best)]
    /\ UNCHANGED <<variant, localIndex, files, now, seeded, db, dht, watching,
                   lastSeq, knownInfohashes, pubs, lastPub, cyc, published,
                   clean, loop>>

(* A retry timer fires (dht-store.js:119-123). *)
GetRetry ==
    /\ obs # None
    /\ \E t \in obs.timers :
         /\ t.kind = "retry"
         /\ t.at <= obs.clock
         /\ LET c == [obs EXCEPT !.timers = @ \ {t}] IN
            obs' = IF retryWanted(obs.resolved, obs.best) THEN attemptGet(c) ELSE c
    /\ UNCHANGED <<variant, localIndex, files, now, seeded, db, dht, watching,
                   lastSeq, knownInfohashes, pubs, lastPub, cyc, published,
                   clean, loop>>

(* The final timeout fires (dht-store.js:127-137). *)
GetTimeout ==
    /\ obs # None
    /\ \E t \in obs.timers :
         /\ t.kind = "timeout"
         /\ t.at <= obs.clock
         /\ LET c == [obs EXCEPT !.timers = @ \ {t}] IN
            obs' = IF ~obs.resolved THEN [resolveCall(c) EXCEPT !.path = "timeout"]
                   ELSE c
    /\ UNCHANGED <<variant, localIndex, files, now, seeded, db, dht, watching,
                   lastSeq, knownInfohashes, pubs, lastPub, cyc, published,
                   clean, loop>>

(* A tick of checkInterval (dht-store.js:140-152): the interval goes on,  *)
(* and a settle timer is set when a result is held.                        *)
GetPoll ==
    /\ obs # None
    /\ \E t \in obs.timers :
         /\ t.kind = "poll"
         /\ t.at <= obs.clock
         /\ obs' = [obs EXCEPT !.timers =
                       (@ \ {t}) \cup {timer("poll", obs.clock + PollSeconds)}
                       \cup (IF obs.best > 0 /\ ~obs.resolved
                             THEN {timer("settle", obs.clock + SettleSeconds)}
                             ELSE {}),
                                !.settleFor = IF @ = 0 /\ ~obs.resolved
                                              THEN obs.best ELSE @]
    /\ UNCHANGED <<variant, localIndex, files, now, seeded, db, dht, watching,
                   lastSeq, knownInfohashes, pubs, lastPub, cyc, published,
                   clean, loop>>

(* A settle timer fires (dht-store.js:143-150): clearTimeout,             *)
(* clearInterval, resolve.                                                 *)
GetSettle ==
    /\ obs # None
    /\ \E t \in obs.timers :
         /\ t.kind = "settle"
         /\ t.at <= obs.clock
         /\ LET c == [obs EXCEPT !.timers = @ \ {t}] IN
            obs' = IF settleWanted(obs.resolved)
                   THEN [resolveCall(c) EXCEPT
                           !.path = "early",
                           !.timers = {u \in @ : u.kind \notin {"timeout", "poll"}}]
                   ELSE c
    /\ UNCHANGED <<variant, localIndex, files, now, seeded, db, dht, watching,
                   lastSeq, knownInfohashes, pubs, lastPub, cyc, published,
                   clean, loop>>

(* A second passes once every timer that is due has fired. *)
GetSecond ==
    /\ obs # None
    /\ obs.clock < MaxSeconds
    /\ \A t \in obs.timers : t.at > obs.clock
    /\ obs' = [obs EXCEPT !.clock = @ + 1]
    /\ UNCHANGED <<variant, localIndex, files, now, seeded, db, dht, watching,
                   lastSeq, knownInfohashes, pubs, lastPub, cyc, published,
                   clean, loop>>

----------------------------------------------------------------------------
(* putMutable (lib/dht-store.js:166-220) as its attempts: obs is the call. *)

(* The calls: putMutable(..., retries) with the default of 3 and less. *)
PutRetries == 0..DefaultRetries

(* What the callback of dht.put carries. *)
PutOutcomes == {"stored", "No nodes to query", "other error"}

(* err.message.includes('No nodes') alone decides the retry *)
putRetriedForever(attemptsLeft, outcome) == outcome = "No nodes to query"

(* dht-store.js:206: attemptsLeft > 0 && err.message.includes('No nodes') *)
putRetried(attemptsLeft, outcome) ==
    attemptsLeft > 0 /\ outcome = "No nodes to query"

(* dht-store.js:198: (!nodes || nodes.length === 0) && attemptsLeft > 0 *)
putWaits(attemptsLeft, hasNodes) == ~hasNodes /\ attemptsLeft > 0

(* putMutable is called: the size test, then attemptPut(retries). *)
PutStart(retries, length) ==
    /\ obs = None
    /\ obs' = [call |-> "putMutable", retries |-> retries, length |-> length,
               attemptsLeft |-> retries, clock |-> 0, puts |-> 0, waits |-> 0,
               at |-> IF valueTooLong(length) THEN "settled" ELSE "attempt",
               settled |-> IF valueTooLong(length) THEN "rejected" ELSE "",
               log |-> <<>>]
    /\ UNCHANGED <<variant, localIndex, files, now, seeded, db, dht, watching,
                   lastSeq, knownInfohashes, pubs, lastPub, cyc, published,
                   clean, loop>>

(* attemptPut(attemptsLeft) up to dht.put (dht-store.js:195-204). *)
PutAttempt(hasNodes) ==
    /\ obs # None
    /\ obs.at = "attempt"
    /\ obs' = IF putWaits(obs.attemptsLeft, hasNodes)
              THEN [obs EXCEPT !.at = "wait", !.waits = @ + 1,
                               !.log = Append(@, "no nodes")]
              ELSE [obs EXCEPT !.at = "put", !.puts = @ + 1]
    /\ UNCHANGED <<variant, localIndex, files, now, seeded, db, dht, watching,
                   lastSeq, knownInfohashes, pubs, lastPub, cyc, published,
                   clean, loop>>

(* The 5 s timer set by attemptPut fires: attemptPut(attemptsLeft - 1). *)
PutTimer ==
    /\ obs # None
    /\ obs.at = "wait"
    /\ obs' = [obs EXCEPT !.at = "attempt", !.attemptsLeft = @ - 1,
                          !.clock = @ + RetrySeconds]
    /\ UNCHANGED <<variant, localIndex, files, now, seeded, db, dht, watching,
                   lastSeq, knownInfohashes, pubs, lastPub, cyc, published,
                   clean, loop>>

(* The callback of dht.put (dht-store.js:204-215). *)
PutCallback(outcome) ==
    /\ obs # None
    /\ obs.at = "put"
    /\ obs' = IF outcome = "stored"
              THEN [obs EXCEPT !.at = "settled", !.settled = "resolved",
                               !.log = Append(@, outcome)]
              ELSE IF putRetried(obs.attemptsLeft, outcome)
              THEN [obs EXCEPT !.at = "wait", !.waits = @ + 1,
                               !.log = Append(@, outcome)]
              ELSE [obs EXCEPT !.at = "settled", !.settled = "rejected",
                               !.log = Append(@, outcome)]
    /\ UNCHANGED <<variant, localIndex, files, now, seeded, db, dht, watching,
                   lastSeq, knownInfohashes, pubs, lastPub, cyc, published,
                   clean, loop>>

----------------------------------------------------------------------------
(* The life of one process of each program: the handles it holds, its     *)
(* SIGINT listener and how it ends.  obs is the process observed.          *)

ProcessKinds == {"share-message", "part_001", "find-messages", "generate-keys"}

isPublisher(kind) == kind \in {"share-message", "part_001"}

(* part_001:84 and generate-keys.js:341 create a DHT handle *)
holdsDht(kind) == kind \in {"part_001", "generate-keys"}

(* process.on('SIGINT') runs when the module is loaded in                 *)
(* find-messages.js:282 and generate-keys.js:371; in share-message.js:268  *)
(* and part_001:215 it is a statement of main() after the publish.         *)
listensAtLoad(kind) == ~isPublisher(kind)

destroyed(handle) == IF handle = "live" THEN "destroyed" ELSE handle

(* What the run of the listener appends to the events: clearInterval      *)
(* (part_001:218), destroyClient, destroyDHT, process.exit(0).             *)
sigintEvents(p) ==
    (IF p.timer = "set" THEN <<"clearInterval">> ELSE <<>>)
    \o (IF p.client = "live" THEN <<"destroyClient">> ELSE <<>>)
    \o (IF p.dht = "live" THEN <<"destroyDHT">> ELSE <<>>)
    \o <<"exit">>

(* node <program>: the module is loaded, main() is about to run. *)
ProcLaunch(kind, watch) ==
    /\ obs = None
    /\ isPublisher(kind) => ~watch
    /\ obs' = [kind |-> kind, watch |-> watch, at |-> "load",
               client |-> "none", dht |-> "none", timer |-> "none",
               listens |-> listensAtLoad(kind), ticks |-> 0,
               by |-> "", events |-> <<>>]
    /\ UNCHANGED <<variant, localIndex, files, now, seeded, db, dht, watching,
                   lastSeq, knownInfohashes, pubs, lastPub, cyc, published,
                   clean, loop>>

(* dht = await createDHT() *)
ProcCreateDHT ==
    /\ obs # None
    /\ obs.at = "load"
    /\ holdsDht(obs.kind)
    /\ obs' = [obs EXCEPT !.at = "dht", !.dht = "live"]
    /\ UNCHANGED <<variant, localIndex, files, now, seeded, db, dht, watching,
                   lastSeq, knownInfohashes, pubs, lastPub, cyc, published,
                   clean, loop>>

(* client = createClient(): the publish or the discovery starts. *)
ProcCreateClient ==
    /\ obs # None
    /\ obs.at = IF holdsDht(obs.kind) THEN "dht" ELSE "load"
    /\ obs' = [obs EXCEPT !.at = "working", !.client = "live"]
    /\ UNCHANGED <<variant, localIndex, files, now, seeded, db, dht, watching,
                   lastSeq, knownInfohashes, pubs, lastPub, cyc, published,
                   clean, loop>>

(* The work of main() ends: a publisher sets its re-announce timer        *)
(* (part_001:204) and its SIGINT listener and goes on seeding; a single    *)
(* discovery destroys its handles and returns; a watch loop slept and      *)
(* polls again.                                                            *)
ProcWorkDone ==
    /\ obs # None
    /\ obs.at = "working"
    /\ obs' = IF isPublisher(obs.kind)
              THEN [obs EXCEPT !.at = "seeding", !.listens = TRUE,
                               !.timer = IF obs.kind = "part_001" THEN "set" ELSE "none"]
              ELSE IF obs.watch
              THEN [obs EXCEPT !.ticks = (@ + 1) % (MaxTicks + 1)]
              ELSE [obs EXCEPT !.at = "returned",
                               !.client = destroyed(@), !.dht = destroyed(@),
                               !.events = (IF obs.dht = "live"
                                           THEN <<"destroyClient", "destroyDHT">>
                                           ELSE <<"destroyClient">>)]
    /\ UNCHANGED <<variant, localIndex, files, now, seeded, db, dht, watching,
                   lastSeq, knownInfohashes, pubs, lastPub, cyc, published,
                   clean, loop>>

(* The re-announce timer of part_001:204-212 fires. *)
ProcTimer ==
    /\ obs # None
    /\ obs.at = "seeding"
    /\ obs.timer = "set"
    /\ obs' = [obs EXCEPT !.ticks = (@ + 1) % (MaxTicks + 1)]
    /\ UNCHANGED <<variant, localIndex, files, now, seeded, db, dht, watching,
                   lastSeq, knownInfohashes, pubs, lastPub, cyc, published,
                   clean, loop>>

(* The catch of main(): destroy what is held, process.exit(1).  A watch   *)
(* loop catches the errors of its cycles itself.                           *)
ProcError ==
    /\ obs # None
    /\ obs.at \in {"load", "dht", "working"}
    /\ obs.at = "working" => ~obs.watch
    /\ obs' = [obs EXCEPT !.at = "exited", !.by = "error",
                          !.client = destroyed(@), !.dht = destroyed(@),
                          !.events = (IF obs.client = "live"
                                      THEN <<"destroyClient">> ELSE <<>>)
                                     \o (IF obs.dht = "live"
                                         THEN <<"destroyDHT">> ELSE <<>>)
                                     \o <<"exit">>]
    /\ UNCHANGED <<variant, localIndex, files, now, seeded, db, dht, watching,
                   lastSeq, knownInfohashes, pubs, lastPub, cyc, published,
                   clean, loop>>

(* SIGINT is delivered.  With a listener its body runs to process.exit(0); *)
(* without one Node ends the process at once, whatever it holds.           *)
ProcSigint ==
    /\ obs # None
    /\ obs.at \notin {"exited", "returned"}
    /\ obs' = IF obs.listens
              THEN [obs EXCEPT !.at = "exited", !.by = "SIGINT",
                               !.timer = IF @ = "set" THEN "cleared" ELSE @,
                               !.client = destroyed(@), !.dht = destroyed(@),
                               !.events = sigintEvents(obs)]
              ELSE [obs EXCEPT !.at = "exited", !.by = "SIGINT",
                               !.events = <<"exit">>]
    /\ UNCHANGED <<variant, localIndex, files, now, seeded, db, dht, watching,
                   lastSeq, knownInfohashes, pubs, lastPub, cyc, published,
                   clean, loop>>

----------------------------------------------------------------------------
Init ==
    /\ variant \in Variants
    /\ localIndex = [d \in Dirs |-> [k \in Keys |-> None]]
    /\ files = [d \in Dirs |-> <<>>]
    /\ now = [d \in Dirs |-> 0]
    /\ seeded = {}
    /\ db = [k \in Keys |-> None]
    /\ dht = [n \in DhtNodes |-> [k \in Keys |-> None]]
    /\ watching = None
    /\ lastSeq = -1
    /\ knownInfohashes = {}
    /\ pubs = 0
    /\ lastPub = NoPub
    /\ cyc = None
    /\ published = [k \in Keys |-> [has |-> FALSE, messages |-> <<>>]]
    /\ clean = [ok |-> TRUE, key |-> "", dir |-> "", log |-> <<>>]
    /\ loop = "off"
    /\ obs = None

----------------------------------------------------------------------------
(* The re-announce timer of the record-store publisher (part_001:203-212): *)
(* obs is the process that stays up after its publish.                     *)

(* A node keeps an item it holds when the same seq and value are put again *)
(* and rejects a put of a lower seq, or of the same seq with another value. *)
nodeTakes(n, publicKey, value, seq) ==
    \/ nodeAccepts(n, publicKey, seq)
    \/ dht[n][publicKey] = [seq |-> seq, value |-> value]

(* The re-announce counts on *)
reannounceSeqNext(seq, ticks) == seq + ticks + 1

(* part_001:207: putMutable(dht, publicKey, privateKey,                   *)
(* manifestTorrent.infohash, seq) with the seq of the publish.             *)
reannounceSeq(seq, ticks) == seq

(* part_001:204: setInterval after the publish of this process succeeded. *)
ReannounceStart ==
    /\ obs = None
    /\ variant = "dht"
    /\ lastPub.ok
    /\ obs' = [call |-> "reannounce", dir |-> lastPub.dir, key |-> lastPub.key,
               value |-> lastPub.pointer, seq |-> lastPub.seq, ticks |-> 0,
               running |-> TRUE, log |-> <<>>]
    /\ UNCHANGED <<variant, localIndex, files, now, seeded, db, dht, watching,
                   lastSeq, knownInfohashes, pubs, lastPub, cyc, published,
                   clean, loop>>

(* The callback of the interval (part_001:204-211): one putMutable, its   *)
(* rejection caught and logged.                                            *)
ReannounceTick(reached) ==
    LET seq == reannounceSeq(obs.seq, obs.ticks)
        ok == \E n \in reached : nodeTakes(n, obs.key, obs.value, seq)
    IN
    /\ obs # None
    /\ obs.running
    /\ obs.ticks < MaxTicks
    /\ dht' = [n \in DhtNodes |->
                 IF n \in reached /\ nodeTakes(n, obs.key, obs.value, seq)
                 THEN [dht[n] EXCEPT ![obs.key] = [seq |-> seq, value |-> obs.value]]
                 ELSE dht[n]]
    /\ obs' = [obs EXCEPT !.ticks = @ + 1,
                          !.log = Append(@, [value |-> obs.value, seq |-> seq,
                                             ok |-> ok])]
    /\ UNCHANGED <<variant, localIndex, files, now, seeded, db, watching,
                   lastSeq, knownInfohashes, pubs, lastPub, cyc, published,
                   clean, loop>>

(* SIGINT (part_001:215-221): clearInterval and exit. *)
ReannounceStop ==
    /\ obs # None
    /\ obs.running
    /\ obs' = [obs EXCEPT !.running = FALSE]
    /\ UNCHANGED <<variant, localIndex, files, now, seeded, db, dht, watching,
                   lastSeq, knownInfohashes, pubs, lastPub, cyc, published,
                   clean, loop>>

(* The lookup is a free input only when the run performs it. *)
lookupInputs(d, k) ==
    IF serverFirstManifest(d, k) = None THEN BOOLEAN ELSE {TRUE}

(* The download is a free input only when a record was found and its      *)
(* torrent is seeded.                                                      *)
downloadInputs(existing) ==
    IF existing # None /\ existing.value \in seeded THEN BOOLEAN ELSE {FALSE}

(* putMutable rejects (part_001:173) after both torrents were seeded: the *)
(* await is inside the try of main only, so the catch of 224-229 destroys  *)
(* the client and exits with 1 before the local index is written.          *)
PublishDhtPutFails(d, k, existing, transportOk, reached) ==
    LET b == dhtBuild(d, k, existing, transportOk) IN
    /\ variant = "dht"
    /\ ~putMutableOk(k, dhtPriorSeq(d, k, existing) + 1, reached)
    /\ PublishFailed(d, k, b.filesManifest, TRUE, publishSteps(TRUE, TRUE, FALSE))

(* The publish runs of owners `keys` on machines `dirs`. *)
PublisherRuns(limit, dirs, keys) ==
    \/ \E d \in dirs, k \in keys :
         pubs < limit /\
         \E lookupOk \in lookupInputs(d, k), announceOk \in BOOLEAN :
            PublishServer(d, k, lookupOk, announceOk)
    \/ \E d \in dirs, k \in keys :
         pubs < limit /\
         \E lookupOk \in lookupInputs(d, k), manifestWritten \in BOOLEAN :
            PublishServerSeedFails(d, k, lookupOk, manifestWritten)
    \/ \E d \in dirs, k \in keys, answering, reached \in SUBSET DhtNodes :
         pubs < limit /\
         \E existing \in getMutableResults(k, answering) :
            \E transportOk \in downloadInputs(existing) :
               PublishDht(d, k, answering, existing, transportOk, reached)
    \/ \E d \in dirs, k \in keys, answering \in SUBSET DhtNodes :
         pubs < limit /\
         \E existing \in getMutableResults(k, answering) :
            \E transportOk \in downloadInputs(existing), manifestWritten \in BOOLEAN :
               PublishDhtFails(d, k, existing, transportOk, manifestWritten)
    \/ \E d \in dirs, k \in keys, answering, reached \in SUBSET DhtNodes :
         pubs < limit /\
         \E existing \in getMutableResults(k, answering) :
            \E transportOk \in downloadInputs(existing) :
               PublishDhtPutFails(d, k, existing, transportOk, reached)

(* The discovery runs on the subscriber's machine, for the owners `keys`. *)
SubscriberRuns(keys) ==
    \/ \E k \in keys, lookupOk \in BOOLEAN :
         /\ variant = "server"
         /\ \E avail \in SUBSET wanted(files[SubscriberDir], k, FALSE, -1, {},
                                      serverResolve(k, lookupOk)) :
               Discover(SubscriberDir, k, serverResolve(k, lookupOk), avail, lookupOk)
    \/ \E k \in keys, answering \in SUBSET DhtNodes :
         /\ variant = "dht"
         /\ \E result \in getMutableResults(k, answering) :
               \E avail \in SUBSET wanted(files[SubscriberDir], k, FALSE, -1, {},
                                         dhtResolve(result)) :
                  Discover(SubscriberDir, k, dhtResolve(result), avail,
                           answering = DhtNodes)
    \/ \E k \in keys : WatchStart(SubscriberDir, k)
    \/ \E lookupOk \in BOOLEAN :
         /\ variant = "server"
         /\ watching # None
         /\ \E avail \in SUBSET wanted(files[watching.dir], watching.key, TRUE, lastSeq,
                                      knownInfohashes,
                                      serverResolve(watching.key, lookupOk)) :
               WatchCycle(serverResolve(watching.key, lookupOk), avail, lookupOk)
    \/ \E answering \in SUBSET DhtNodes :
         /\ variant = "dht"
         /\ watching # None
         /\ \E result \in getMutableResults(watching.key, answering) :
               \E avail \in SUBSET wanted(files[watching.dir], watching.key, TRUE,
                                         lastSeq, knownInfohashes, dhtResolve(result)) :
                  WatchCycle(dhtResolve(result), avail, answering = DhtNodes)

(* Publishers and a subscriber. *)
Next ==
    \/ PublisherRuns(MaxPublishes, Dirs, Keys)
    \/ SubscriberRuns(Keys)

Spec == Init /\ [][Next]_vars

(* Publishers only, more runs. *)
NextPublish == PublisherRuns(MaxRuns, Dirs, Keys)

SpecPublish == Init /\ [][NextPublish]_vars

(* One owner publishing from either machine. *)
NextPair == PublisherRuns(MaxPairRuns, Dirs, {"ab01"})

SpecPair == Init /\ [][NextPair]_vars

(* Two owners publishing from one machine. *)
NextKeys == PublisherRuns(MaxPairRuns, {"d1"}, Keys)

SpecKeys == Init /\ [][NextKeys]_vars

(* One owner publishing from one machine, more runs still. *)
NextOwner == PublisherRuns(MaxOwnerRuns, {"d1"}, {"ab01"})

SpecOwner == Init /\ [][NextOwner]_vars

(* One owner publishing from either machine, and a subscriber of that     *)
(* owner.                                                                  *)
NextLog ==
    \/ PublisherRuns(MaxLogRuns, Dirs, {"ab01"})
    \/ SubscriberRuns({"ab01"})

SpecLog == Init /\ [][NextLog]_vars

(* A watch process of one owner whose publisher is any program holding    *)
(* the owner's key, with silent collaborators and SIGINT.                  *)
NextWatch ==
    \/ \E kind \in ForeignKinds, reached \in (SUBSET DhtNodes) \ {{}} :
         /\ pubs < MaxForeignRuns
         /\ (variant = "server" => reached = DhtNodes)
         /\ PublishForeign("ab01", kind, reached)
    \/ SubscriberRuns({"ab01"})
    \/ WatchLookupSilent
    \/ WatchCancel

SpecWatch == Init /\ [][NextWatch]_vars

(* The signaling server and its clients. *)
NextServer ==
    \/ \E body \in ClientBodies : ServerAnnounce(body)
    \/ \E publicKey \in {"ab01", "ab02", "zz"} : ServerLookup(publicKey)

SpecServer == Init /\ [][NextServer]_vars

(* lib/crypto-utils.js called on the inputs above. *)
NextCrypto ==
    \/ \E content \in CallContents, timestamp \in 1..MaxTimestamp,
          k \in Keys, kind \in MessageKinds :
         CallVerifyMessage(content, timestamp, k, kind)
    \/ \E messages \in CallManifestLists, k \in Keys, kind \in ManifestKinds :
         CallVerifyManifest(messages, k, kind)
    \/ \E content \in CallContents, signer \in Keys,
          short \in BOOLEAN, publicKey \in KeyBytes :
         CallVerify(content, signer, short, publicKey)

(* lib/dht-store.js putMutable called by any program. *)
NextStore ==
    \E length \in ValueLengths, seq \in 1..MaxStoreSeq,
       reached \in SUBSET DhtNodes :
       CallPutMutable("ab01", length, seq, reached)

SpecStore == Init /\ [][NextStore]_vars

(* One call of getMutable, the answers of the store and the clock. *)
NextGet ==
    \/ \E call \in GetCalls : GetStart(call)
    \/ \E answer \in GetAnswers : GetResponse(answer)
    \/ GetRetry
    \/ GetTimeout
    \/ GetPoll
    \/ GetSettle
    \/ GetSecond

InitGet == Init /\ variant = "dht"

SpecGet == InitGet /\ [][NextGet]_vars

(* One owner publishing to the record store from either machine, and the *)
(* re-announce timer of one of those processes.                            *)
NextReannounce ==
    \/ \E d \in Dirs, answering, reached \in SUBSET DhtNodes :
         pubs < MaxLogRuns /\
         \E existing \in getMutableResults("ab01", answering) :
            \E transportOk \in downloadInputs(existing) :
               PublishDht(d, "ab01", answering, existing, transportOk, reached)
    \/ ReannounceStart
    \/ \E reached \in SUBSET DhtNodes : ReannounceTick(reached)
    \/ ReannounceStop

SpecReannounce == InitGet /\ [][NextReannounce]_vars

(* One call of putMutable and what the store answers. *)
NextPut ==
    \/ \E retries \in PutRetries, length \in ValueLengths : PutStart(retries, length)
    \/ \E hasNodes \in BOOLEAN : PutAttempt(hasNodes)
    \/ PutTimer
    \/ \E outcome \in PutOutcomes : PutCallback(outcome)

(* Timers fire and dht.put calls back. *)
SpecPut == InitGet /\ [][NextPut]_vars /\ WF_vars(NextPut)

(* One process of any of the four programs and the signals it gets. *)
NextProcess ==
    \/ \E kind \in ProcessKinds, watch \in BOOLEAN : ProcLaunch(kind, watch)
    \/ ProcCreateDHT
    \/ ProcCreateClient
    \/ ProcWorkDone
    \/ ProcTimer
    \/ ProcError
    \/ ProcSigint

SpecProcess == Init /\ [][NextProcess]_vars

(* The library is the same in both generations. *)
InitCrypto == Init /\ variant = "server"

SpecCrypto == InitCrypto /\ [][NextCrypto]_vars

----------------------------------------------------------------------------
(* Properties *)

Max(a, b) == IF a >= b THEN a ELSE b

(* C1: for any owner key, the seq stored in the local cache (the owner's  *)
(* entry of local-index.json) never decreases over any sequence of runs,   *)
(* whatever the server and the record store answer.                        *)
C1_CacheSeqNeverDecreases ==
    [][\A d \in Dirs, k \in Keys :
          seqOf(localIndex[d][k]) <= seqOf(localIndex'[d][k])]_vars

(* C2: for two successive successful publishes of one owner, the message  *)
(* list of the second manifest is the list of the first with exactly one   *)
(* entry appended at the end.                                              *)
C2_AppendOnly ==
    (lastPub.ok /\ lastPub.prev.has) =>
        /\ Len(lastPub.messages) = Len(lastPub.prev.messages) + 1
        /\ SubSeq(lastPub.messages, 1, Len(lastPub.prev.messages)) = lastPub.prev.messages

(* C3: every content a discovery for owner key K surfaces comes from a    *)
(* message whose publicKey is K and whose signature verifies under K,      *)
(* listed in a manifest whose publicKey is K.                              *)
C3_SurfacedOnlyFromRequestedKey ==
    IF cyc = None THEN TRUE
    ELSE \A i \in 1..Len(cyc.shown) :
            cyc.shown[i].valid =>
               /\ cyc.shown[i].message.publicKey = cyc.key
               /\ verify([content   |-> cyc.shown[i].message.content,
                          timestamp |-> cyc.shown[i].message.timestamp,
                          publicKey |-> cyc.shown[i].message.publicKey],
                         fromHex(cyc.shown[i].message.signature), cyc.key)
               /\ cyc.processed.publicKey = cyc.key

(* C4: from no prior state and with every collaborator reachable, the n   *)
(* publishes of an owner use seq 1..n in that order, and a discovery that  *)
(* follows processes an n-entry manifest and surfaces the n contents in    *)
(* publish order, each with a valid signature.                             *)
C4_PublishThenDiscover ==
    IF cyc = None THEN TRUE
    ELSE IF cyc.scenario = <<>> THEN TRUE
    ELSE LET log == cyc.scenario
             n == Len(log)
         IN /\ \A i \in 1..n : log[i][1] = i
            /\ cyc.processed # None
            /\ Len(cyc.processed.messages) = n
            /\ Len(cyc.shown) = n
            /\ \A i \in 1..n : /\ cyc.shown[i].valid
                               /\ cyc.shown[i].message.content = log[i][2]

(* C4 witness: "hello" then "world" were published with seq 1 and 2 and   *)
(* the discovery surfaced both in that order.                              *)
C4_Witness ==
    IF cyc = None THEN FALSE
    ELSE /\ cyc.scenario = <<(<<1, "hello">>), (<<2, "world">>)>>
         /\ Len(cyc.shown) = 2
         /\ cyc.shown[1].message.content = "hello"
         /\ cyc.shown[2].message.content = "world"
         /\ cyc.shown[1].valid /\ cyc.shown[2].valid

(* C5: the prior record a publish resolves is the highest-seq record      *)
(* among the local cache, the server and the record store.                 *)
C5_PriorIsHighestSeq ==
    lastPub.ok => lastPub.prior = Max(lastPub.cacheBefore, lastPub.remoteBefore)

(* C6: with one publisher of an identity active at a time, an announce is *)
(* never rejected with 409, under any pattern of server reachability.      *)
C6_AnnounceNeverConflicts ==
    lastPub.ok => lastPub.announce # 409

(* C7: when the record store returns nothing, a discovery for an owner    *)
(* with a local cache entry and cached manifest still processes the cached *)
(* data.                                                                   *)
C7_DegradedDiscoveryFromCache ==
    IF cyc = None THEN TRUE
    ELSE (/\ variant = "dht"
          /\ cyc.resolved = 0
          /\ cyc.cacheSeq > 0
          /\ cyc.cachedManifest # None) => (cyc.ret /\ cyc.processed # None)

(* C8: in a watch session a resolved record whose seq is lower than the   *)
(* seq already processed is discarded: lastSeq never decreases and no      *)
(* manifest is processed for it.                                           *)
C8_LastSeqNeverDecreases ==
    [][/\ lastSeq' >= lastSeq
       /\ (/\ watching # None
           /\ cyc' # None
           /\ cyc'.watch
           /\ cyc'.resolved > 0
           /\ cyc'.resolved < lastSeq) => cyc'.processed = None]_vars

(* C9: a watch cycle whose resolved seq equals lastSeq is "no new data":  *)
(* it surfaces nothing and leaves lastSeq, the delivered set and the       *)
(* directory unchanged.                                                    *)
C9_SameSeqIsNoop ==
    [][(/\ watching # None
        /\ cyc' # None
        /\ cyc'.watch
        /\ cyc'.resolved = lastSeq)
          => /\ cyc'.noop
             /\ ~cyc'.ret
             /\ cyc'.shown = <<>>
             /\ cyc'.processed = None
             /\ lastSeq' = lastSeq
             /\ knownInfohashes' = knownInfohashes
             /\ files' = files]_vars

(* C9 witness: a cycle resolved the seq that was processed before, after  *)
(* messages were delivered.                                                *)
C9_Witness ==
    IF cyc = None THEN FALSE
    ELSE /\ cyc.watch
         /\ cyc.noop
         /\ cyc.resolved = lastSeq
         /\ cyc.prevLastSeq = lastSeq
         /\ knownInfohashes # {}

(* C10: after a watch cycle in which the manifest fetch or a message      *)
(* fetch failed, the next cycle re-attempts the fetch even when the        *)
(* resolved seq is unchanged.                                              *)
C10_RetryAfterFailedFetch ==
    IF cyc = None THEN TRUE
    ELSE (cyc.watch /\ cyc.afterFailure /\ cyc.resolved = cyc.prevLastSeq)
            => ~cyc.noop

(* C11: no error raised inside a watch cycle (unreachable server, failed  *)
(* manifest or message fetch, malformed manifest) ends the watch loop:     *)
(* after every cycle, failed or not, the loop is still running; it ends    *)
(* only by SIGINT.                                                         *)
C11_WatchLoopSurvivesErrors ==
    [][loop = "running" =>
          /\ loop' # "ended"
          /\ (cyc' # None /\ cyc'.watch) => loop' = "running"]_vars

(* C11 witness: a cycle threw on a manifest without a messages array and *)
(* the loop is running.                                                    *)
C11_Witness ==
    IF cyc = None THEN FALSE
    ELSE cyc.watch /\ cyc.threw /\ loop = "running"

(* C12: every publish run and every discovery cycle reaches an end even   *)
(* when a collaborator never answers a request: no run stalls.             *)
C12_NoRunStalls == loop # "stalled"

(* C13: content of a message is shown only if verifyMessage of it is      *)
(* true; a message that fails verification is reported invalid and its     *)
(* content is not shown, for local and downloaded messages alike.          *)
C13_ContentOnlyIfValid ==
    IF cyc = None THEN TRUE
    ELSE \A i \in 1..Len(cyc.shown) :
            LET item == cyc.shown[i] IN
            /\ item.valid = verifyMessage(item.message)
            /\ item.content # <<>> => verifyMessage(item.message)
            /\ ~verifyMessage(item.message) => item.content = <<>>
            /\ verifyMessage(item.message) => item.content = <<item.message.content>>

(* C13 witness: a forged message was read from the directory, reported    *)
(* invalid and not shown, after it had been downloaded.                    *)
C13_Witness ==
    IF cyc = None THEN FALSE
    ELSE \E i \in 1..Len(cyc.shown) :
            /\ cyc.shown[i].local
            /\ ~cyc.shown[i].valid
            /\ cyc.shown[i].message.content = "evil"
            /\ cyc.shown[i].content = <<>>

(* C14: verifyMessage of what createSignedMessage made is true, and it is *)
(* false once the signature, the content, the timestamp or the publicKey   *)
(* of that message is changed.                                             *)
C14_SignVerifyRoundTrip ==
    IF obs = None THEN TRUE
    ELSE obs.call = "verifyMessage" =>
           /\ obs.kind = "none" => obs.result.value
           /\ obs.kind \in {"content", "timestamp", "publicKey", "publicKeyUpper",
                             "publicKeyTail", "publicKeyShort", "publicKeyNonHex",
                             "signatureOther", "signatureKey", "signatureUpper",
                             "signatureTail", "signatureShort", "signatureNonHex"}
                => ~obs.result.value

(* C15: verify, verifyMessage and verifyManifest never throw, and on a    *)
(* malformed input (a missing field, a key or signature that is not hex or *)
(* has the wrong length, a null object) they return false.                 *)
C15_VerifyNeverThrows ==
    IF obs = None THEN TRUE
    ELSE obs.call \in {"verify", "verifyMessage", "verifyManifest"} =>
           /\ ~obs.result.threw
           /\ obs.kind \in {"publicKeyTail", "publicKeyTailSigned", "publicKeyShort",
                             "publicKeyNonHex", "signatureTail", "signatureShort",
                             "signatureNonHex", "noSignature", "noPublicKey",
                             "noContent", "noTimestamp", "noMessages", "null"}
                => ~obs.result.value

(* C19: a failure of the pointer announcement (the announce to the       *)
(* server, the put to the record store) after the message and the manifest *)
(* were seeded does not abort the publish: the run completes and keeps     *)
(* seeding both torrents.                                                  *)
C19_AnnounceFailureNotFatal ==
    /\ (lastPub.ok /\ variant = "server" /\ lastPub.announce # 200)
          => lastPub.pointer \in seeded
    /\ lastPub.putFailed => (lastPub.ok /\ lastPub.pointer \in seeded)

(* C20: after a publish whose announce or put succeeded, the local cache  *)
(* entry of the key holds exactly the pointer and the seq of that publish: *)
(* the infohash of the manifest just seeded, which is the one announced.   *)
C20_CacheHoldsPublishedPointer ==
    (lastPub.ok /\ (variant = "dht" \/ lastPub.announce = 200)) =>
       LET entry == localIndex[lastPub.dir][lastPub.key] IN
       /\ entry # None
       /\ entry.seq = lastPub.seq
       /\ entry.manifestInfohash = lastPub.pointer
       /\ entry.manifestInfohash \in seeded
       /\ entry.manifestInfohash.name = generateManifestFilename(lastPub.key, lastPub.seq)
       /\ entry.manifestInfohash.data.messages = lastPub.messages
       /\ IF variant = "server"
          THEN db[lastPub.key] = entry
          ELSE \E n \in DhtNodes :
                  dht[n][lastPub.key] = [seq |-> entry.seq,
                                         value |-> entry.manifestInfohash]

(* C20 witness: the second successful publish of an owner. *)
C20_Witness ==
    /\ lastPub.ok
    /\ (variant = "dht" \/ lastPub.announce = 200)
    /\ lastPub.seq = 2
    /\ localIndex[lastPub.dir][lastPub.key] # None
    /\ localIndex[lastPub.dir][lastPub.key].seq = 2

(* C21: a discovery run, single or a watch cycle, never creates or       *)
(* changes a local cache entry: the local index is the same after the run  *)
(* as before it.                                                           *)
C21_DiscoveryLeavesCache ==
    [][cyc' # None => localIndex' = localIndex]_vars

(* C21 witness: a run resolved and processed seq 2 in a directory whose   *)
(* cache entry of the owner holds seq 1.                                   *)
C21_Witness ==
    IF cyc = None THEN FALSE
    ELSE /\ cyc.ret
         /\ cyc.resolved = 2
         /\ localIndex[cyc.dir][cyc.key] # None
         /\ localIndex[cyc.dir][cyc.key].seq = 1

(* C22: putMutable with a value longer than 1000 bytes rejects without   *)
(* issuing a put to the record store; a value of at most 1000 bytes is     *)
(* never rejected for its size.                                            *)
C22_OversizedValueRejected ==
    [][(obs' # None /\ obs'.call = "putMutable") =>
          /\ obs'.length > 1000 =>
                (obs'.outcome = "rejected for size" /\ dht' = dht)
          /\ obs'.length <= 1000 =>
                /\ obs'.outcome # "rejected for size"
                /\ obs'.outcome = "resolved" =>
                      \E n \in obs'.reached :
                         dht'[n][obs'.key] = [seq |-> obs'.seq,
                                              value |-> valueOf(obs'.length)]]_vars

(* C22 witness: a value of 1001 bytes was rejected although a node that   *)
(* would have taken the put was reached, after a value of 1000 bytes was   *)
(* stored.                                                                 *)
C22_Witness ==
    IF obs = None THEN FALSE
    ELSE /\ obs.call = "putMutable"
         /\ obs.length = 1001
         /\ obs.outcome = "rejected for size"
         /\ obs.reached # {}
         /\ \E n \in obs.reached :
               /\ dht[n][obs.key] # None
               /\ dht[n][obs.key].seq < obs.seq
               /\ dht[n][obs.key].value = valueOf(1000)

(* C23: on SIGINT of a publisher or of a watch loop the process exits    *)
(* only after the transport client and, where one is held, the record-     *)
(* store handle were destroyed; in the record-store publisher the          *)
(* re-announce timer is cancelled before that.                             *)
C23_SigintReleasesHandles ==
    IF obs = None THEN TRUE
    ELSE (/\ obs.at = "exited"
          /\ obs.by = "SIGINT"
          /\ (isPublisher(obs.kind) \/ obs.watch))
         => /\ obs.client # "live"
            /\ obs.dht # "live"
            /\ obs.timer # "set"
            /\ obs.events[Len(obs.events)] = "exit"
            /\ obs.timer = "cleared" => obs.events[1] = "clearInterval"

(* C24: the manifest a discovery cycle processes is the manifest named by *)
(* the resolved pointer, whether it was taken from the local manifest      *)
(* files or fetched; a local manifest file of another seq is never         *)
(* processed in its place.                                                 *)
C24_ProcessedIsResolvedManifest ==
    IF cyc = None THEN TRUE
    ELSE cyc.processed # None => cyc.processed = cyc.pointer.data

(* C25: in watch mode a message published after the watcher processed an *)
(* earlier manifest is surfaced by a later poll cycle when the             *)
(* collaborators are reachable, and that cycle surfaces only entries not   *)
(* delivered before.  The cycle that resolves the new seq is the one that  *)
(* has to do it: it sets lastSeq to that seq.                              *)
C25_NewMessageSurfaced ==
    IF cyc = None THEN TRUE
    ELSE (/\ cyc.watch
          /\ cyc.reachable
          /\ cyc.prevLastSeq > 0
          /\ cyc.resolved > cyc.prevLastSeq
          /\ hasMessages(cyc.pointer.data))
         => /\ \A i \in 1..Len(cyc.pointer.data.messages) :
                  cyc.pointer.data.messages[i].infohash \in knownInfohashes
            /\ \A j \in 1..Len(cyc.shown) :
                  cyc.shown[j].infohash \notin cyc.knownBefore

(* C26: in a watch session each content id is surfaced at most once over *)
(* any sequence of poll cycles and manifests: the delivered set only       *)
(* grows, a cycle surfaces no id that is in it and no id twice, and an id   *)
(* enters it only in a cycle that obtained its message and checked its      *)
(* signature.                                                              *)
C26_SurfacedAtMostOnce ==
    [][/\ watching # None => knownInfohashes \subseteq knownInfohashes'
       /\ (watching # None /\ cyc' # None /\ cyc'.watch)
            => /\ \A i \in 1..Len(cyc'.shown) :
                    /\ cyc'.shown[i].infohash \notin knownInfohashes
                    /\ \A j \in 1..Len(cyc'.shown) :
                         cyc'.shown[j].infohash = cyc'.shown[i].infohash => j = i
               /\ \A h \in knownInfohashes' \ knownInfohashes :
                    \E i \in 1..Len(cyc'.shown) :
                       /\ cyc'.shown[i].infohash = h
                       /\ cyc'.shown[i].message # None
                       /\ cyc'.shown[i].valid = verifyMessage(cyc'.shown[i].message)
                       /\ cyc'.shown[i].content # <<>> => cyc'.shown[i].valid]_vars

(* A cycle that skipped a delivered entry of the manifest it processed    *)
(* and surfaced the other one.                                             *)
C26_Witness ==
    IF cyc = None THEN FALSE
    ELSE /\ cyc.watch
         /\ cyc.processed # None
         /\ Len(cyc.processed.messages) = 2
         /\ cyc.processed.messages[1].infohash \in cyc.knownBefore
         /\ Len(cyc.shown) = 1
         /\ cyc.shown[1].infohash = cyc.processed.messages[2].infohash
         /\ Cardinality(knownInfohashes) = 2

(* C27: the seq a publish uses (in the manifest file name, in the record *)
(* it announces or puts and in the local index) is 1 plus the seq of the   *)
(* prior record it resolved for its own key, and 1 when no source had a    *)
(* prior record.  The record-store publisher resolves the stored record    *)
(* and, without one, the local index entry; the server publisher resolves  *)
(* the local index entry and, when no local manifest came with it, the     *)
(* server's entry.                                                         *)
C27_SeqIsPriorPlusOne ==
    lastPub.ok =>
      LET resolved ==
            IF variant = "dht"
            THEN IF lastPub.remoteBefore > 0 THEN lastPub.remoteBefore
                 ELSE lastPub.cacheBefore
            ELSE IF lastPub.cacheBefore > 0 /\ lastPub.manifestBefore
                 THEN lastPub.cacheBefore
                 ELSE IF lastPub.remoteBefore > 0 THEN lastPub.remoteBefore
                 ELSE lastPub.cacheBefore
      IN /\ lastPub.seq = resolved + 1
         /\ (lastPub.cacheBefore = 0 /\ lastPub.remoteBefore = 0) => lastPub.seq = 1
         /\ lastPub.pointer.name = generateManifestFilename(lastPub.key, lastPub.seq)
         /\ localIndex[lastPub.dir][lastPub.key].seq = lastPub.seq

(* A publish from a machine without a local index entry that resolved the *)
(* remote record of seq 1.                                                 *)
C27_Witness ==
    /\ lastPub.ok
    /\ lastPub.cacheBefore = 0
    /\ lastPub.remoteBefore = 1
    /\ lastPub.seq = 2

(* C28: in every publish the pointer is announced or put only after the  *)
(* new message and the updated manifest were both seeded successfully; the *)
(* announced pointer is the content id of that manifest, the last entry of *)
(* that manifest is the content id of that message, and the local cache is *)
(* written only after the announcement attempt.                            *)
C28_AnnounceAfterSeeding ==
    lastPub.key # "" =>
      LET st == lastPub.steps IN
      /\ \A i \in 1..Len(st) :
            st[i].op = "announce" =>
              /\ \E a \in 1..(i - 1) : st[a] = [op |-> "seed message", ok |-> TRUE]
              /\ \E b \in 1..(i - 1) : st[b] = [op |-> "seed manifest", ok |-> TRUE]
      /\ \A i \in 1..Len(st) :
            st[i].op = "save index" => \E a \in 1..(i - 1) : st[a].op = "announce"
      /\ lastPub.ok =>
            /\ \E i \in 1..Len(st) : st[i].op = "announce"
            /\ \E i \in 1..Len(st) : st[i].op = "save index"
            /\ lastPub.pointer.name = generateManifestFilename(lastPub.key, lastPub.seq)
            /\ lastPub.pointer.data.messages = lastPub.messages
            /\ lastPub.messages[Len(lastPub.messages)].infohash = lastPub.message
            /\ {lastPub.message, lastPub.pointer} \subseteq seeded
            /\ localIndex[lastPub.dir][lastPub.key].manifestInfohash = lastPub.pointer
            /\ (variant = "server" /\ lastPub.announce = 200)
                  => db[lastPub.key].manifestInfohash = lastPub.pointer
            /\ variant = "dht"
                  => \E n \in DhtNodes :
                       dht[n][lastPub.key] = [seq |-> lastPub.seq,
                                              value |-> lastPub.pointer]

(* A second publish of an owner that seeded, announced and saved. *)
C28_Witness ==
    /\ lastPub.ok
    /\ Len(lastPub.steps) = 4
    /\ lastPub.steps[3] = [op |-> "announce", ok |-> TRUE]
    /\ Len(lastPub.messages) = 2
    /\ lastPub.seq = 2

(* C29: when seeding the message or the manifest fails or times out, the *)
(* publish ends with an error: nothing is announced or put and the local   *)
(* cache entry of the owner is left as it was.                             *)
C29_SeedFailureAbortsPublish ==
    [][(/\ lastPub'.key # ""
        /\ \E i \in 1..Len(lastPub'.steps) :
              /\ lastPub'.steps[i].op \in {"seed message", "seed manifest"}
              /\ ~lastPub'.steps[i].ok)
         => /\ ~lastPub'.ok
            /\ \A i \in 1..Len(lastPub'.steps) :
                  lastPub'.steps[i].op \notin {"announce", "save index"}
            /\ db' = db
            /\ dht' = dht
            /\ localIndex' = localIndex]_vars

(* A second publish of an owner whose manifest was written and not        *)
(* seeded: the owner's cache entry still holds seq 1.                      *)
C29_Witness ==
    /\ lastPub.key # ""
    /\ ~lastPub.ok
    /\ lastPub.steps = <<[op |-> "seed message", ok |-> TRUE],
                         [op |-> "seed manifest", ok |-> FALSE]>>
    /\ localIndex[lastPub.dir][lastPub.key] # None
    /\ generateManifestFilename(lastPub.key, 2) \in DOMAIN files[lastPub.dir]
    /\ IF localIndex[lastPub.dir][lastPub.key] = None THEN FALSE
       ELSE localIndex[lastPub.dir][lastPub.key].seq = 1

(* C30: a record-store publish that finds a prior record and cannot      *)
(* download the manifest it names does not abort: it continues from the    *)
(* local manifest file if there is one, from an empty message list only    *)
(* when there is none, and in both cases uses the prior seq plus 1.        *)
C30_FailedDownloadFallsBack ==
    (/\ variant = "dht"
     /\ lastPub.ok
     /\ lastPub.remoteBefore > 0
     /\ ~lastPub.downloaded)
      => /\ lastPub.seq = lastPub.remoteBefore + 1
         /\ Len(lastPub.messages) = Len(lastPub.localMessages) + 1
         /\ SubSeq(lastPub.messages, 1, Len(lastPub.localMessages))
               = lastPub.localMessages
         /\ lastPub.messages[Len(lastPub.messages)].infohash = lastPub.message
         /\ Len(lastPub.messages) = 1 => ~lastPub.manifestBefore

(* A completed publish that found the record of seq 1, failed to download *)
(* its manifest and went on from the local manifest file.                  *)
C30_Witness ==
    /\ variant = "dht"
    /\ lastPub.ok
    /\ lastPub.remoteBefore = 1
    /\ ~lastPub.downloaded
    /\ lastPub.manifestBefore
    /\ lastPub.seq = 2
    /\ Len(lastPub.messages) = 2

(* C31: getMutable returns the record of the highest seq among the store *)
(* responses with a value that arrived before it returned, and none only   *)
(* when no such response arrived; the best result it holds never moves to  *)
(* a lower seq during the call.                                            *)
C31_GetReturnsHighestSeq ==
    [][obs' # None =>
         /\ obs # None => obs'.best >= obs.best
         /\ obs'.best = IF obs'.resolved THEN obs'.best ELSE obs'.arrived
         /\ obs'.returns > 0 => obs'.value = obs'.arrived]_vars

(* A call that returned seq 2 after a response of seq 1 came in behind it. *)
C31_Witness ==
    IF obs = None THEN FALSE
    ELSE /\ obs.returns = 1
         /\ obs.value = 2
         /\ obs.sawLower
         /\ obs.attemptCount = 2

(* C32: getMutable issues the first store query at once and the i-th     *)
(* additional query, i = 1..retries, at 5 i seconds only if the call has   *)
(* not returned and no candidate was found yet; it never issues more than  *)
(* retries + 1 queries, and a query answered with an error does not stop   *)
(* the later attempts.                                                     *)
C32_RetriesOnlyWithoutCandidate ==
    [][obs' # None =>
         /\ obs'.queryAt[1] = 0
         /\ obs'.attemptCount = Len(obs'.queryAt)
         /\ obs'.attemptCount <= obs'.retries + 1
         /\ \A j \in 2..Len(obs'.queryAt) :
               /\ obs'.queryAt[j] > obs'.queryAt[j - 1]
               /\ \E i \in 1..obs'.retries : obs'.queryAt[j] = i * RetrySeconds
         /\ obs # None =>
               /\ obs'.attemptCount > obs.attemptCount
                     => (~obs.resolved /\ obs.best = 0)
               /\ (\E t \in obs.timers \ obs'.timers :
                     t.kind = "retry" /\ ~obs.resolved /\ obs.best = 0)
                     => obs'.attemptCount = obs.attemptCount + 1]_vars

(* A call whose four queries were all answered, one of them with an       *)
(* error, without a candidate.                                             *)
C32_Witness ==
    IF obs = None THEN FALSE
    ELSE /\ obs.queryAt = <<0, 5, 10, 15>>
         /\ obs.sawError
         /\ obs.inflight = 0
         /\ obs.best = 0
         /\ obs.returns = 1

(* C33: getMutable returns exactly once in every execution: at the       *)
(* overall timeout at the latest, or earlier once a result was found and   *)
(* the settle window has elapsed; a higher-seq response that arrives       *)
(* within the settle window is the one returned, and a response that       *)
(* arrives after the return changes nothing.                               *)
C33_GetReturnsOnce ==
    [][obs' # None =>
         /\ obs'.returns <= 1
         /\ obs'.resolved = (obs'.returns = 1)
         /\ obs'.clock > obs'.timeout => obs'.returns = 1
         /\ obs'.returns = 1 =>
               /\ obs'.returnedAt <= obs'.timeout
               /\ obs'.path = "early" =>
                     /\ obs'.value > 0
                     /\ obs'.value >= obs'.settleFor
                     /\ obs'.settleFor > 0
                     /\ obs'.returnedAt >= SettleSeconds + PollSeconds
         /\ (obs # None /\ obs.returns = 1) =>
               /\ obs'.value = obs.value
               /\ obs'.best = obs.best
               /\ obs'.returnedAt = obs.returnedAt
               /\ obs'.path = obs.path
         /\ (/\ obs # None
             /\ obs.returns = 0
             /\ obs'.returns = 1) => obs'.value = obs.best]_vars

(* A call that returned early with seq 2, which came in after the settle  *)
(* timer was set for seq 1.                                                *)
C33_Witness ==
    IF obs = None THEN FALSE
    ELSE /\ obs.returns = 1
         /\ obs.path = "early"
         /\ obs.settleFor = 1
         /\ obs.value = 2
         /\ obs.queryAt = <<0, 5>>
         /\ obs.returnedAt = 9

(* C34: once getMutable has returned, on the timeout path as on the      *)
(* early path, none of the timed tasks it scheduled stays active: retry    *)
(* timers, poll interval, settle timers and overall timeout are cancelled  *)
(* or have expired (what is left is due at the second of the return), and  *)
(* no further store query is issued.                                       *)
C34_NoTimerAfterReturn ==
    [][(obs' # None /\ obs'.returns = 1) =>
         /\ \A t \in obs'.timers : t.at <= obs'.returnedAt
         /\ (obs # None /\ obs.returns = 1)
               => obs'.attemptCount = obs.attemptCount]_vars

C36_UnverifiedManifestStillProcessed ==
    IF cyc = None THEN TRUE
    ELSE IF cyc.loaded = None THEN ~cyc.warned
    ELSE /\ cyc.warned = ~verifyManifest(cyc.loaded)
         /\ (hasMessages(cyc.loaded) /\ ~verifyManifest(cyc.loaded)) =>
               /\ cyc.ret
               /\ cyc.processed = cyc.loaded
               /\ \A i \in 1..Len(cyc.loaded.messages) :
                     LET h == cyc.loaded.messages[i].infohash IN
                     \/ h \in cyc.knownBefore
                     \/ h \in cyc.failed
                     \/ \E j \in 1..Len(cyc.shown) :
                          /\ cyc.shown[j].infohash = h
                          /\ verifyMessage(cyc.shown[j].message) =>
                                cyc.shown[j].content =
                                  <<cyc.shown[j].message.content>>

(* A run that loaded a manifest signed with another key, warned, and      *)
(* showed the validly signed message the manifest names.                   *)
C36_Witness ==
    IF cyc = None THEN FALSE
    ELSE IF cyc.loaded = None THEN FALSE
    ELSE /\ cyc.warned
         /\ hasMessages(cyc.loaded)
         /\ Len(cyc.shown) = 1
         /\ cyc.shown[1].valid
         /\ cyc.shown[1].content = <<"hello">>
         /\ cyc.shown[1].infohash = cyc.loaded.messages[1].infohash

(* C37: every manifest a publisher seeds and announces carries the        *)
(* publisher's own public key and passes verifyManifest, whatever manifest *)
(* the publish started from (downloaded, loaded from a local file matching *)
(* the 8-character key prefix, or new).                                    *)
C37_SeededManifestIsOwn ==
    lastPub.ok =>
       /\ lastPub.pointer.data.publicKey = lastPub.key
       /\ verifyManifest(lastPub.pointer.data)

(* C38: the message discovery surfaces for a manifest entry is the       *)
(* message whose content id the entry names, also when it is taken from    *)
(* the local message files by matching timestamp and owner key, and also   *)
(* when two messages of the same owner carry the same timestamp.           *)
C38_SurfacedIsNamedMessage ==
    IF cyc = None THEN TRUE
    ELSE \A i \in 1..Len(cyc.shown) :
            cyc.shown[i].content # <<>> =>
               infoHash(cyc.shown[i].infohash.name, cyc.shown[i].message)
                  = cyc.shown[i].infohash

(* C39: the periodic re-announce of the record-store publisher always    *)
(* re-puts the pointer and the seq that its publish wrote; it never        *)
(* changes the seq, the manifest or the local cache, and a failed          *)
(* re-announce stops neither the process nor the later re-announces.       *)
C39_ReannounceRePutsSame ==
    [][(obs # None /\ obs' # None /\ obs'.ticks # obs.ticks) =>
          /\ obs'.log[Len(obs'.log)].value = obs.value
          /\ obs'.log[Len(obs'.log)].seq = obs.seq
          /\ obs'.value = obs.value /\ obs'.seq = obs.seq
          /\ obs'.running
          /\ localIndex' = localIndex
          /\ files' = files
          /\ seeded' = seeded
          /\ lastPub' = lastPub
          /\ \A n \in DhtNodes :
                \/ dht'[n] = dht[n]
                \/ dht'[n] = [dht[n] EXCEPT ![obs.key] =
                                 [seq |-> obs.seq, value |-> obs.value]]
          /\ (obs.ticks > 0 /\ ~obs.log[Len(obs.log)].ok) => obs.running]_vars

(* A re-announce that failed, followed by one of the same pointer and seq *)
(* that a node stored.                                                     *)
C39_Witness ==
    IF obs = None THEN FALSE
    ELSE /\ Len(obs.log) = 2
         /\ ~obs.log[1].ok
         /\ obs.log[2].ok
         /\ obs.log[2].seq = obs.seq
         /\ \E n \in DhtNodes :
               dht[n][obs.key] = [seq |-> obs.seq, value |-> obs.value]

(* C40: the local cache holds at most one entry per owner key, and        *)
(* writing one owner's entry after a publish leaves the entries of all     *)
(* other owners unchanged.                                                 *)
C40_CacheWriteTouchesOwnEntryOnly ==
    [][\A d \in Dirs :
          /\ DOMAIN localIndex'[d] \subseteq Keys
          /\ \A k \in Keys :
                localIndex'[d][k] # localIndex[d][k] =>
                   /\ lastPub'.ok /\ lastPub'.dir = d /\ lastPub'.key = k
                   /\ localIndex'[d][k] = [manifestInfohash |-> lastPub'.pointer,
                                           seq |-> lastPub'.seq]
                   /\ \A o \in Keys \ {k} : localIndex'[d][o] = localIndex[d][o]
                   /\ \A e \in Dirs \ {d} : localIndex'[e] = localIndex[e]]_vars

(* The cache of one machine holds the entry of ab01 from an earlier       *)
(* publish after ab02 published twice from the same machine.               *)
C40_Witness ==
    /\ lastPub.ok /\ lastPub.key = "ab02" /\ lastPub.dir = "d1"
    /\ lastPub.cacheBefore > 0
    /\ localIndex["d1"]["ab01"] # None
    /\ localIndex["d1"]["ab02"] # None
    /\ seqOf(localIndex["d1"]["ab02"]) = lastPub.seq

(* C16: for every key the seq stored by the signaling server strictly    *)
(* increases over the accepted announces, and an announce that passed the  *)
(* earlier checks with a seq not higher than the stored one is answered    *)
(* 409 and leaves the entry as it was.                                     *)
C16_ServerSeqStrictlyIncreases ==
    [][\A k \in Keys :
          /\ (db[k] # None /\ db'[k] # db[k]) =>
                 /\ db'[k] # None
                 /\ db[k].seq # NotANumber
                 /\ db'[k].seq # NotANumber
                 /\ db'[k].seq > db[k].seq
          /\ ( /\ obs' # None
               /\ obs'.call = "announce"
               /\ obs'.status \in {200, 409}
               /\ obs'.body.publicKey = k
               /\ db[k] # None
               /\ obs'.body.seq # NotANumber
               /\ db[k].seq # NotANumber
               /\ obs'.body.seq <= db[k].seq )
              => (obs'.status = 409 /\ db' = db)]_vars

(* C17: the server changes its entry only on an announce with all four   *)
(* fields, a 64-hex key, a 40-hex pointer and a signature that verifies    *)
(* over {publicKey, manifestInfohash, seq}; a malformed announce gets 400,  *)
(* a well-formed one with a bad signature 403, whatever its seq; every      *)
(* rejected announce leaves the store unchanged.                           *)
C17_AnnounceValidatedBeforeStore ==
    [][(obs' # None /\ obs'.call = "announce") =>
          LET body == obs'.body
              wellFormed ==
                  IF body = None THEN FALSE
                  ELSE /\ AnnounceFields \subseteq DOMAIN body
                       /\ body.publicKey \in Keys
                       /\ body.manifestInfohash # BadInfohash
              signed ==
                  IF wellFormed
                  THEN verify([publicKey        |-> body.publicKey,
                               manifestInfohash |-> body.manifestInfohash,
                               seq              |-> body.seq],
                              fromHex(body.signature), body.publicKey)
                  ELSE FALSE
          IN /\ db' # db => (signed /\ obs'.status = 200)
             /\ ~wellFormed => obs'.status = 400
             /\ (wellFormed /\ ~signed) => obs'.status = 403
             /\ obs'.status # 200 => db' = db]_vars

(* C17 witness: an announce with a bad signature and a seq not higher     *)
(* than the stored one was answered 403.                                   *)
C17_Witness ==
    IF obs = None THEN FALSE
    ELSE /\ obs.call = "announce"
         /\ obs.status = 403
         /\ db[obs.body.publicKey] # None
         /\ obs.body.seq # NotANumber
         /\ db[obs.body.publicKey].seq = 2
         /\ obs.body.seq <= 2

(* C18: lookup of a key answers 200 with the pointer and seq of the most  *)
(* recently accepted announce of that key, 404 when none was accepted,     *)
(* and never changes the store.                                            *)
C18_LookupReturnsLastAccepted ==
    [][(obs' # None /\ obs'.call = "lookup") =>
          /\ db' = db
          /\ obs'.key \in Keys =>
                IF obs'.accepted[obs'.key] = None
                THEN obs'.status = 404
                ELSE /\ obs'.status = 200
                     /\ obs'.entry = obs'.accepted[obs'.key]]_vars

(* C18 witness: a lookup after two accepted announces of the key answered *)
(* the second.                                                             *)
C18_Witness ==
    IF obs = None THEN FALSE
    ELSE /\ obs.call = "lookup"
         /\ obs.status = 200
         /\ obs.entry.seq = 2
         /\ obs.entry.manifestInfohash = serverPointer(1)

====
